---- MODULE Spec2Model ----
(***************************************************************************)
(* Catalog cache (CacheManager) and program guide (EPGManager) of          *)
(* OMG Premium TV, as two state machines over one clock, and the script    *)
(* runner (PythonRunner) beside them.                                      *)
(*                                                                         *)
(* JavaScript strings are sequences of one-character strings, so that      *)
(* normalizeId, the "tv|" prefix strip and the HH:MM interval parser work  *)
(* on characters as the code does.  Opaque strings (URLs, titles) are      *)
(* one-token sequences.  Times are milliseconds, as Date.now() gives them. *)
(***************************************************************************)
EXTENDS Integers, Sequences, FiniteSets, TLC

VARIABLES
    now,          \* Date.now()
    config,       \* CacheManager.config
    cache,        \* CacheManager.cache
    lastFilter,   \* CacheManager.lastFilter
    polling,      \* number of live setInterval timers of CacheManager.startPolling
    cdb,          \* CacheManager.db: the in-memory sql.js catalog database
    cdisk,        \* data/cache.db as last written by CacheManager.saveDatabase
    inflight,     \* pending loadAndTransform promises, with their awaiting caller
    out,          \* the last catalog step's kind and caller, and the counts of calls,
                  \* transforms, writes and events since the running rebuild began;
                  \* when a rebuildCache call ended, whether it rejected and what
                  \* its cacheUpdated listener found
    edb,          \* EPGManager.db: null, or the tables programs (in rowid order)
                  \* and channel_icons
    isUpdating,   \* EPGManager.isUpdating
    lastUpdate,   \* EPGManager.lastUpdate
    edisk,        \* data/epg.db as last written by EPGManager.saveDatabase
    refresh,      \* the startEPGUpdate calls past their flag test: phase, URLs left,
                  \* downloads failed so far
    eout,         \* the last guide step's kind, the HTTP requests it issued, whether
                  \* its download failed, and the failed downloads of its refresh so far
    cronJob,      \* number of live daily jobs scheduled by EPGManager.initializeEPG
    cleanupJob,   \* number of live jobs scheduled by schedulePeriodicCleanup
    lastEpgUrl,   \* EPGManager.lastEpgUrl
    runner        \* the PythonRunner: isRunning, lastError, lastExecution, whether
                  \* temp_script.py exists, the playlist files of its directory, the
                  \* executeScript calls past their flag test, and its last step

\* cacheVars is all a guide step leaves alone, epgVars all a catalog step does
cacheVars == <<config, cache, lastFilter, polling, cdb, cdisk, inflight, out, runner>>
jobVars   == <<cronJob, cleanupJob, lastEpgUrl>>
epgVars   == <<edb, isUpdating, lastUpdate, edisk, refresh, eout, jobVars, runner>>
vars      == <<now, cacheVars, epgVars>>

-----------------------------------------------------------------------------
(* JavaScript values *)

Null      == <<"null">>          \* null, where a string may stand
Undefined == <<"undefined">>     \* undefined, where a string may stand
NullObj   == [null |-> TRUE]     \* null, where an object may stand
UndefObj  == [undefined |-> TRUE]
NullTime  == 0 - 1               \* null, where a timestamp may stand

Falsy(s) == s = Null \/ s = Undefined \/ s = <<>>

-----------------------------------------------------------------------------
(* Characters *)

UpperCase == {"A","B","C","D","E","F","G","H","I","J","K","L","M",
              "N","O","P","Q","R","S","T","U","V","W","X","Y","Z"}
LowerCase == {"a","b","c","d","e","f","g","h","i","j","k","l","m",
              "n","o","p","q","r","s","t","u","v","w","x","y","z"}
Digits    == {"0","1","2","3","4","5","6","7","8","9"}
WhiteSpace == {" ", "\t", "\n"}

toLowerCaseChar(c) ==
    CASE c = "A" -> "a" [] c = "B" -> "b" [] c = "C" -> "c" [] c = "D" -> "d"
      [] c = "E" -> "e" [] c = "F" -> "f" [] c = "G" -> "g" [] c = "H" -> "h"
      [] c = "I" -> "i" [] c = "J" -> "j" [] c = "K" -> "k" [] c = "L" -> "l"
      [] c = "M" -> "m" [] c = "N" -> "n" [] c = "O" -> "o" [] c = "P" -> "p"
      [] c = "Q" -> "q" [] c = "R" -> "r" [] c = "S" -> "s" [] c = "T" -> "t"
      [] c = "U" -> "u" [] c = "V" -> "v" [] c = "W" -> "w" [] c = "X" -> "x"
      [] c = "Y" -> "y" [] c = "Z" -> "z"
      [] OTHER -> c

toLowerCase(s) == [i \in 1..Len(s) |-> toLowerCaseChar(s[i])]

\* the class [\w.] of the regular expression /[^\w.]/g
IsWordOrDot(c) == c \in LowerCase \cup UpperCase \cup Digits \cup {"_", "."}

RECURSIVE TrimStart(_)
TrimStart(s) == IF s # <<>> /\ Head(s) \in WhiteSpace THEN TrimStart(Tail(s)) ELSE s

RECURSIVE TrimEnd(_)
TrimEnd(s) ==
    IF s # <<>> /\ s[Len(s)] \in WhiteSpace THEN TrimEnd(SubSeq(s, 1, Len(s) - 1)) ELSE s

trim(s) == TrimEnd(TrimStart(s))

\* a normalizer that keeps the case of letters
NormalizeKeepingCase(id) ==
    IF id = Null \/ id = Undefined THEN <<>>
    ELSE trim(SelectSeq(id, IsWordOrDot))

\* id?.toLowerCase().replace(/[^\w.]/g, '').trim() || ''
NormalizeChars(id) ==
    IF id = Null \/ id = Undefined THEN <<>>
    ELSE trim(SelectSeq(toLowerCase(id), IsWordOrDot))

\* s.endsWith(t)
endsWith(s, t) == Len(t) <= Len(s) /\ SubSeq(s, Len(s) - Len(t) + 1, Len(s)) = t

\* s.includes(t)
includes(s, t) == \E i \in 0..(Len(s) - Len(t)) : SubSeq(s, i + 1, i + Len(t)) = t

\* s.replace(t, ''): the first occurrence of t removed
replaceFirst(s, t) ==
    IF ~includes(s, t) THEN s
    ELSE LET i == CHOOSE k \in 0..(Len(s) - Len(t)) :
                      /\ SubSeq(s, k + 1, k + Len(t)) = t
                      /\ \A j \in 0..(k - 1) : SubSeq(s, j + 1, j + Len(t)) # t
         IN  SubSeq(s, 1, i) \o SubSeq(s, i + Len(t) + 1, Len(s))

\* parseInt(s, 10) of a string of digits
DigitValue(c) ==
    CASE c = "0" -> 0 [] c = "1" -> 1 [] c = "2" -> 2 [] c = "3" -> 3 [] c = "4" -> 4
      [] c = "5" -> 5 [] c = "6" -> 6 [] c = "7" -> 7 [] c = "8" -> 8 [] c = "9" -> 9

RECURSIVE parseInt(_)
parseInt(s) == IF s = <<>> THEN 0 ELSE 10 * parseInt(SubSeq(s, 1, Len(s) - 1)) + DigitValue(s[Len(s)])

-----------------------------------------------------------------------------
(* Time, in milliseconds *)

Minute == 60 * 1000
Hour   == 60 * 60 * 1000
Day    == 24 * 60 * 60 * 1000

\* let updateIntervalMs = 12 * 60 * 60 * 1000
DefaultUpdateIntervalMs == 12 * 60 * 60 * 1000

\* the instant the process starts at
BootTime == 13 * Hour

-----------------------------------------------------------------------------
(* Catalog data: what loadAndTransform can return *)

U1 == <<"http://one/list.m3u">>
U2 == <<"http://two/list.m3u">>
Urls == {U1, U2}

GNews  == <<"News">>
GSport == <<"Sport">>

ChNews1 == [id   |-> <<"t","v","|","N","1",".","i","t">>,
            name |-> <<"N","e","w","s"," ","1">>,
            genre |-> <<GNews>>,
            tvg  |-> <<"N","1",".","i","t">>]
ChNews2 == [id   |-> <<"t","v","|","s","k","y">>,
            name |-> <<"S","k","y"," ","N","E","W","S">>,
            genre |-> <<GNews, GSport>>,
            tvg  |-> Undefined]
ChSport == [id   |-> <<"t","v","|","S","-","1">>,
            name |-> <<"S","1">>,
            genre |-> <<GSport>>,
            tvg  |-> <<"n","e","w","s","1">>]
ChOther == [id   |-> <<"t","v","|","x">>,
            name |-> <<"N","1",".","I","T">>,
            genre |-> Undefined,
            tvg  |-> <<"X">>]

DataA == [channels |-> <<ChNews1, ChNews2, ChSport>>,
          genres   |-> <<GNews, GSport>>,
          epgUrls  |-> <<<<"http://one/epg.xml">>>>]
DataB == [channels |-> <<ChOther, ChNews1>>,
          genres   |-> <<GNews>>,
          epgUrls  |-> <<>>]
Datasets == {DataA, DataB}

\* arguments the queries are asked with
QueryIds    == {<<>>, <<"n","1",".","I","T"," ">>, <<"N","E","W","S","1">>, <<"s","1">>,
                <<"#">>}
QueryGenres == {<<>>, GNews, GSport}
QueryTexts  == {<<>>, <<"N","e","w","s"," ">>, <<"1">>}

-----------------------------------------------------------------------------
(* CacheManager: configuration *)

ConfigKeys == {"m3u", "update_interval", "id_suffix", "remapper_path", "epg", "epg_enabled"}

\* c.key of a partial object: undefined where the key is missing
Get(c, k) == IF k \in DOMAIN c THEN c[k] ELSE Undefined

\* { ...a, ...b }
Spread(a, b) == [k \in ConfigKeys |-> IF k \in DOMAIN b THEN b[k] ELSE Get(a, k)]

I0030 == <<"0","0",":","3","0">>
I0000 == <<"0","0",":","0","0">>
I100  == <<"1",":","0","0">>
I2400 == <<"2","4",":","0","0">>
I0060 == <<"0","0",":","6","0">>
IWord == <<"1","2","h">>
Intervals == {I0030, I0000, I100, I2400, I0060, IWord}

\* normalizeId(id, removeSuffix = false)
cacheNormalizeId(cfg, id, removeSuffix) ==
    LET normalized == NormalizeChars(id)
        suffix     == <<".">> \o Get(cfg, "id_suffix")
    IN  IF removeSuffix /\ ~Falsy(Get(cfg, "id_suffix")) /\ endsWith(normalized, suffix)
        THEN SubSeq(normalized, 1, Len(normalized) - Len(suffix))
        ELSE normalized

-----------------------------------------------------------------------------
(* CacheManager: staleness *)

\* config.update_interval.match(/^(\d{1,2}):(\d{2})$/)
timeMatch(s) ==
    /\ Len(s) \in {4, 5}
    /\ s[Len(s) - 2] = ":"
    /\ \A i \in (1..Len(s)) \ {Len(s) - 2} : s[i] \in Digits

IntervalHours(s)   == parseInt(SubSeq(s, 1, Len(s) - 3))
IntervalMinutes(s) == parseInt(SubSeq(s, Len(s) - 1, Len(s)))

\* an isStale that takes any matching value without the range check
updateIntervalMsUnchecked(cfg) ==
    LET s == Get(cfg, "update_interval") IN
    IF Falsy(s) THEN DefaultUpdateIntervalMs
    ELSE IF ~timeMatch(s) THEN DefaultUpdateIntervalMs
    ELSE (IntervalHours(s) * 60 * 60 + IntervalMinutes(s) * 60) * 1000

\* the interval isStale compares with
updateIntervalMs(cfg) ==
    LET s == Get(cfg, "update_interval") IN
    IF Falsy(s) THEN DefaultUpdateIntervalMs
    ELSE IF ~timeMatch(s) THEN DefaultUpdateIntervalMs
    ELSE IF /\ IntervalHours(s) >= 0 /\ IntervalHours(s) < 24
            /\ IntervalMinutes(s) >= 0 /\ IntervalMinutes(s) < 60
         THEN (IntervalHours(s) * 60 * 60 + IntervalMinutes(s) * 60) * 1000
         ELSE DefaultUpdateIntervalMs

\* !this.cache.lastUpdated
NoTime(t) == t = NullTime \/ t = 0

isStale(cfg, c, t) ==
    IF NoTime(c.lastUpdated) \/ c.stremioData = NullObj THEN TRUE
    ELSE (t - c.lastUpdated) >= updateIntervalMs(cfg)

-----------------------------------------------------------------------------
(* CacheManager: queries *)

\* array.find(test): the first element passing, undefined when none does
Find(seq, Test(_)) ==
    LET hits == {i \in 1..Len(seq) : Test(seq[i])}
    IN  IF hits = {} THEN UndefObj
        ELSE seq[CHOOSE i \in hits : \A j \in hits : i <= j]

HasChannels(c) == c.stremioData # NullObj

getCachedData(c) ==
    IF ~HasChannels(c) THEN [channels |-> <<>>, genres |-> <<>>]
    ELSE [channels |-> c.stremioData.channels, genres |-> c.stremioData.genres]

getChannel(cfg, c, channelId) ==
    IF Falsy(channelId) \/ ~HasChannels(c) THEN NullObj
    ELSE LET normalizedSearchId == cacheNormalizeId(cfg, channelId, FALSE)
             ByIdOrTvg(ch) ==
                 \/ cacheNormalizeId(cfg, replaceFirst(ch.id, <<"t","v","|">>), FALSE)
                        = normalizedSearchId
                 \/ cacheNormalizeId(cfg, ch.tvg, FALSE) = normalizedSearchId
             ByName(ch) == cacheNormalizeId(cfg, ch.name, FALSE) = normalizedSearchId
             channel == Find(c.stremioData.channels, ByIdOrTvg)
         IN  IF channel = UndefObj THEN Find(c.stremioData.channels, ByName) ELSE channel

\* Array.isArray(channel.genre)
IsArray(a) == a # Undefined /\ a # Null

SeqIncludes(a, x) == \E i \in 1..Len(a) : a[i] = x

getChannelsByGenre(c, genre) ==
    IF Falsy(genre) \/ ~HasChannels(c) THEN <<>>
    ELSE LET HasGenre(ch) == IsArray(ch.genre) /\ SeqIncludes(ch.genre, genre)
         IN  SelectSeq(c.stremioData.channels, HasGenre)

\* a searchChannels that wants the whole name to equal the query
searchChannelsExact(cfg, c, query) ==
    IF ~HasChannels(c) THEN <<>>
    ELSE IF Falsy(query) THEN c.stremioData.channels
    ELSE LET normalizedQuery == cacheNormalizeId(cfg, query, FALSE)
             Matches(ch) == cacheNormalizeId(cfg, ch.name, FALSE) = normalizedQuery
         IN  SelectSeq(c.stremioData.channels, Matches)

searchChannels(cfg, c, query) ==
    IF ~HasChannels(c) THEN <<>>
    ELSE IF Falsy(query) THEN c.stremioData.channels
    ELSE LET normalizedQuery == cacheNormalizeId(cfg, query, FALSE)
             Matches(ch) == includes(cacheNormalizeId(cfg, ch.name, FALSE), normalizedQuery)
         IN  SelectSeq(c.stremioData.channels, Matches)

\* a getFilteredChannels that forgets the remembered filter
getFilteredChannelsUnfiltered(cfg, c, f) ==
    IF ~HasChannels(c) THEN <<>> ELSE c.stremioData.channels

getFilteredChannels(cfg, c, f) ==
    IF ~HasChannels(c) THEN <<>>
    ELSE IF f = NullObj THEN c.stremioData.channels
    ELSE IF f.type = "genre" THEN getChannelsByGenre(c, f.value)
    ELSE IF f.type = "search" THEN searchChannels(cfg, c, f.value)
    ELSE c.stremioData.channels

\* everything a reader of the catalog can observe, over the query arguments
CatalogView(cfg, c, f) ==
    [ channel  |-> [id \in QueryIds |-> getChannel(cfg, c, id)],
      byGenre  |-> [g \in QueryGenres |-> getChannelsByGenre(c, g)],
      search   |-> [q \in QueryTexts |-> searchChannels(cfg, c, q)],
      cached   |-> getCachedData(c),
      filtered |-> getFilteredChannels(cfg, c, f) ]

-----------------------------------------------------------------------------
(* CacheManager: the durable catalog (sql.js database and its file) *)

DigitChar(d) ==
    CASE d = 0 -> "0" [] d = 1 -> "1" [] d = 2 -> "2" [] d = 3 -> "3" [] d = 4 -> "4"
      [] d = 5 -> "5" [] d = 6 -> "6" [] d = 7 -> "7" [] d = 8 -> "8" [] d = 9 -> "9"

\* n.toString() of a non-negative integer
RECURSIVE toString(_)
toString(n) == IF n < 10 THEN <<DigitChar(n)>> ELSE toString(n \div 10) \o <<DigitChar(n % 10)>>

\* JSON.stringify / JSON.parse: a field holding undefined is a missing field in
\* both the object and its text, so the text carries the value as it is
JSONstringify(v) == [json |-> v]
JSONparse(t)     == t.json

\* the schema of initializeDatabase, with no rows
EmptyDb == [channels |-> <<>>, genres |-> <<>>,
            metadata |-> [lastUpdated |-> Undefined, m3uUrl |-> Undefined,
                          epgUrls |-> UndefObj]]

\* initCache
InitCacheValue ==
    [stremioData |-> NullObj, lastUpdated |-> NullTime, updateInProgress |-> FALSE,
     m3uUrl |-> Null, epgUrls |-> <<>>]

\* INSERT INTO channels, one row at a time: a row whose id is already stored
\* throws and is skipped
RECURSIVE InsertChannels(_, _)
InsertChannels(rows, chs) ==
    IF chs = <<>> THEN rows
    ELSE LET ch == Head(chs)
             dup == \E i \in 1..Len(rows) : rows[i].id = ch.id
         IN  InsertChannels(IF dup THEN rows
                            ELSE Append(rows, [id |-> ch.id, data |-> JSONstringify(ch)]),
                            Tail(chs))

\* INSERT INTO genres, one row at a time, up to the first genre already stored
RECURSIVE InsertGenres(_, _)
InsertGenres(rows, gs) ==
    IF gs = <<>> \/ SeqIncludes(rows, Head(gs)) THEN rows
    ELSE InsertGenres(Append(rows, Head(gs)), Tail(gs))

\* whether an INSERT INTO genres throws (PRIMARY KEY)
GenreInsertThrows(gs) == \E i, j \in 1..Len(gs) : i < j /\ gs[i] = gs[j]

\* saveCacheToDB up to its call of saveDatabase: the tables after it, and whether
\* saveDatabase is reached
saveCacheToDB(c, db) ==
    IF db = NullObj THEN [db |-> db, reachesSave |-> FALSE]
    ELSE LET meta == [lastUpdated |-> IF NoTime(c.lastUpdated) THEN db.metadata.lastUpdated
                                      ELSE toString(c.lastUpdated),
                      m3uUrl      |-> IF Falsy(c.m3uUrl) THEN db.metadata.m3uUrl
                                      ELSE c.m3uUrl,
                      epgUrls     |-> IF IsArray(c.epgUrls) THEN JSONstringify(c.epgUrls)
                                      ELSE db.metadata.epgUrls]
             data == c.stremioData
         IN  [db |-> [metadata |-> meta,
                      channels |-> IF data = NullObj THEN db.channels
                                   ELSE InsertChannels(<<>>, data.channels),
                      genres   |-> IF data = NullObj THEN db.genres
                                   ELSE InsertGenres(<<>>, data.genres)],
              reachesSave |-> data = NullObj \/ ~GenreInsertThrows(data.genres)]

\* saveDatabase: the file after it; writeOk is whether fs.writeFileSync succeeds
saveDatabase(db, disk, writeOk) == IF writeOk THEN db ELSE disk

loadCacheFromDB(db) ==
    IF db = NullObj THEN InitCacheValue
    ELSE LET channels == [i \in 1..Len(db.channels) |-> JSONparse(db.channels[i].data)]
         IN  [stremioData |-> IF Len(channels) > 0
                              THEN [channels |-> channels, genres |-> db.genres]
                              ELSE NullObj,
              lastUpdated |-> IF Falsy(db.metadata.lastUpdated) THEN NullTime
                              ELSE parseInt(db.metadata.lastUpdated),
              updateInProgress |-> FALSE,
              m3uUrl  |-> IF Falsy(db.metadata.m3uUrl) THEN Null ELSE db.metadata.m3uUrl,
              epgUrls |-> IF db.metadata.epgUrls = UndefObj THEN <<>>
                          ELSE JSONparse(db.metadata.epgUrls)]

-----------------------------------------------------------------------------
(* CacheManager: rebuildCache *)

\* bounds of the model
MaxInflight == 2       \* pending transforms the model lets exist at once
MaxCalls    == 2       \* rebuildCache calls counted against one running rebuild

\* a rebuildCache that never looks at the flag
SkipsNever(c) == FALSE

\* if (this.cache.updateInProgress) return
Skips(c) == c.updateInProgress

\* a rebuildCache that forgets to set the flag
MarkNothing(c) == c

\* this.cache.updateInProgress = true
MarkInProgress(c) == [c EXCEPT !.updateInProgress = TRUE]

\* this.cache = { stremioData: data, lastUpdated: Date.now(), ... }
Published(data, m3uUrl, t) ==
    [stremioData |-> data, lastUpdated |-> t, updateInProgress |-> FALSE,
     m3uUrl |-> m3uUrl, epgUrls |-> data.epgUrls]

\* a catch block that drops the snapshot as well, as the guide refresh does
ClearSnapshotToo(c) == [c EXCEPT !.updateInProgress = FALSE, !.stremioData = NullObj]

\* a catch block that leaves the flag set
KeepInProgress(c) == c

\* the catch block's this.cache.updateInProgress = false
ClearInProgress(c) == [c EXCEPT !.updateInProgress = FALSE]

Min(a, b) == IF a < b THEN a ELSE b

NoCounts == [calls |-> 0, transforms |-> 0, saveCalls |-> 0, diskWrites |-> 0,
             updated |-> 0, errors |-> 0]

\* the counts so far of the rebuild that is running; none when none is running
Running == IF Len(inflight) = 0 THEN NoCounts ELSE out.win

Count(n) == Min(n + 1, MaxInflight + 1)

\* a step that is no part of a rebuildCache call
OtherStep == [op |-> "other", by |-> "none", win |-> Running]

\* a startPolling that sets a timer without clearing the previous one
startPollingWithoutClear(timers) == timers + 1

\* startPolling: the previous timer, if any, is cleared and one is set
startPolling(timers) == IF timers > 0 THEN (timers - 1) + 1 ELSE timers + 1

\* rebuildCache(m3uUrl, cfgArg) called on cache c0 and config cfg0 by caller `by`
\* (restart: the caller goes on to startPolling when the call returns): the call
\* up to its await
rebuildCacheCall(c0, cfg0, t0, m3uUrl, cfgArg, by, restart) ==
    IF Skips(c0)
    THEN /\ cache' = c0
         /\ config' = cfg0
         /\ polling' = IF restart THEN startPolling(t0) ELSE t0
         /\ inflight' = inflight
         /\ out' = [op |-> "skip", by |-> by,
                    win |-> [Running EXCEPT !.calls = Min(@ + 1, MaxCalls)]]
    ELSE /\ Len(inflight) < MaxInflight
         /\ cache' = MarkInProgress(c0)
         /\ config' = Spread(cfg0, cfgArg)
         /\ polling' = t0
         /\ inflight' = Append(inflight, [url |-> m3uUrl, by |-> by, restart |-> restart])
         /\ out' = [op |-> "start", by |-> by,
                    win |-> [Running EXCEPT !.calls = Min(@ + 1, MaxCalls),
                                            !.transforms = Count(@)]]

RemoveAt(s, i) == SubSeq(s, 1, i - 1) \o SubSeq(s, i + 1, Len(s))

\* a rebuildCache call from outside the manager
RebuildArgs == {<<>>, [update_interval |-> I0030]}

RebuildCache(m3uUrl, cfgArg) ==
    /\ rebuildCacheCall(cache, config, polling, m3uUrl, cfgArg, "ext", FALSE)
    /\ UNCHANGED <<now, lastFilter, cdb, cdisk, epgVars>>

\* the manager as a listener can read it: snapshot, database and file
Store(c, db, disk) == [cache |-> c, db |-> db, disk |-> disk]

\* a rebuildCache that emits cacheUpdated before it calls saveCacheToDB
SeenBeforeWrite(atResolve, afterSwap, afterSave) == afterSwap

\* what a cacheUpdated listener finds: emit calls it after saveCacheToDB returned
SeenByListener(atResolve, afterSwap, afterSave) == afterSave

\* a saveCacheToDB that lets a failed write out of its try block
SaveFailureRejectsAlways(wrote) == ~wrote

\* whether a failed write makes rebuildCache reject: saveCacheToDB and
\* saveDatabase catch and log their errors
SaveFailureRejects(wrote) == FALSE

\* loadAndTransform resolves with data: the rest of the try block
TransformResolves(i, data, writeOk) ==
    LET r     == inflight[i]
        saved == saveCacheToDB(Published(data, r.url, now), cdb)
        wrote == saved.reachesSave /\ writeOk
    IN  /\ cache' = Published(data, r.url, now)
        /\ cdb' = saved.db
        /\ cdisk' = IF saved.reachesSave THEN saveDatabase(saved.db, cdisk, writeOk)
                     ELSE cdisk
        /\ inflight' = RemoveAt(inflight, i)
        /\ polling' = IF r.by = "cfg" /\ r.restart THEN startPolling(polling) ELSE polling
        /\ out' = [op |-> "ok", by |-> r.by,
                   win |-> [Running EXCEPT !.saveCalls = Count(@),
                                           !.diskWrites = IF wrote THEN Count(@) ELSE @,
                                           !.updated = Count(@)],
                   rejects |-> SaveFailureRejects(wrote),
                   seen |-> SeenByListener(Store(cache, cdb, cdisk),
                                           Store(cache', cdb, cdisk),
                                           Store(cache', cdb', cdisk'))]
        /\ UNCHANGED <<now, config, lastFilter, epgVars>>

\* loadAndTransform rejects: the catch block
TransformRejects(i) ==
    LET r == inflight[i]
    IN  /\ cache' = ClearInProgress(cache)
        /\ inflight' = RemoveAt(inflight, i)
        /\ out' = [op |-> "fail", by |-> r.by,
                   win |-> [Running EXCEPT !.errors = Count(@)],
                   rejects |-> TRUE]
        /\ UNCHANGED <<now, config, lastFilter, polling, cdb, cdisk, epgVars>>

-----------------------------------------------------------------------------
(* CacheManager: updateConfig, polling, filters *)

ConfigInputs ==
    { [m3u |-> U1],
      [m3u |-> U2, update_interval |-> I0030],
      [update_interval |-> I0000] }

hasM3UChanges(cfg, newConfig) == Get(cfg, "m3u") # Get(newConfig, "m3u")

hasOtherChanges(cfg, newConfig) ==
    \/ Get(cfg, "update_interval") # Get(newConfig, "update_interval")
    \/ Get(cfg, "id_suffix") # Get(newConfig, "id_suffix")
    \/ Get(cfg, "remapper_path") # Get(newConfig, "remapper_path")

\* this.cache.stremioData = null; this.cache.m3uUrl = null
ResetPlaylist(c) == [c EXCEPT !.stremioData = NullObj, !.m3uUrl = Null]

UpdateConfig(newConfig) ==
    LET m3uChanged == hasM3UChanges(config, newConfig)
        restart    == hasOtherChanges(config, newConfig)
        cfg1       == Spread(config, newConfig)
    IN  /\ IF m3uChanged /\ ~Falsy(cfg1["m3u"])
           THEN rebuildCacheCall(ResetPlaylist(cache), cfg1, polling, cfg1["m3u"], cfg1,
                                 "cfg", restart)
           ELSE /\ cache' = IF m3uChanged THEN ResetPlaylist(cache) ELSE cache
                /\ config' = cfg1
                /\ polling' = IF restart THEN startPolling(polling) ELSE polling
                /\ inflight' = inflight
                /\ out' = OtherStep
        /\ UNCHANGED <<now, lastFilter, cdb, cdisk, epgVars>>

\* a tick that rebuilds from the playlist URL of the configuration
PollUrlFromConfig(c, cfg) == cfg["m3u"]

\* the URL the tick passes to rebuildCache: this.cache.m3uUrl
PollUrl(c, cfg) == c.m3uUrl

\* one firing of the setInterval callback of startPolling
PollTick ==
    /\ polling > 0
    /\ IF HasChannels(cache) /\ isStale(config, cache, now)
       THEN rebuildCacheCall(cache, config, polling, PollUrl(cache, config), config,
                             "poll", FALSE)
       ELSE /\ out' = OtherStep
            /\ UNCHANGED <<cache, config, polling, inflight>>
    /\ UNCHANGED <<now, lastFilter, cdb, cdisk, epgVars>>

Filters == { [type |-> "genre", value |-> GNews],
             [type |-> "search", value |-> <<"N","e","w","s"," ">>] }

SetLastFilter(f) ==
    /\ lastFilter' = f
    /\ out' = OtherStep
    /\ UNCHANGED <<now, config, cache, polling, cdb, cdisk, inflight, epgVars>>

ClearLastFilter ==
    /\ lastFilter' = NullObj
    /\ out' = OtherStep
    /\ UNCHANGED <<now, config, cache, polling, cdb, cdisk, inflight, epgVars>>

\* cleanup: the polling timer is cleared
Cleanup ==
    /\ polling > 0
    /\ polling' = 0
    /\ out' = OtherStep
    /\ UNCHANGED <<now, config, cache, lastFilter, cdb, cdisk, inflight, epgVars>>

\* the instants the catalog machine is observed at
CacheInstants ==
    { BootTime, BootTime + 30 * Minute }

TickCache ==
    /\ \E t \in CacheInstants : t > now /\ now' = t
    /\ out' = OtherStep
    /\ UNCHANGED <<config, cache, lastFilter, polling, cdb, cdisk, inflight, epgVars>>

\* the snapshot a previous run of the process left in data/cache.db
PersistedAt == BootTime - 12 * Hour + 30 * Minute
PersistedDb == saveCacheToDB(Published(DataA, U1, PersistedAt), EmptyDb).db

\* module.exports: initializeDatabase, loadCacheFromDB, config, startPolling
CacheInitWith(db, disk) ==
    /\ cdb = db
    /\ cdisk = disk
    /\ cache = loadCacheFromDB(db)
    /\ config = Spread(<<>>, [m3u |-> U1])
    /\ lastFilter = NullObj
    /\ polling = startPolling(0)
    /\ inflight = <<>>
    /\ out = [op |-> "other", by |-> "none", win |-> NoCounts]

CacheInit ==
    \/ CacheInitWith(EmptyDb, NullObj)          \* no file yet
    \/ CacheInitWith(PersistedDb, PersistedDb)  \* the file of a previous run
    \/ CacheInitWith(NullObj, NullObj)          \* initializeDatabase failed

CacheInit0 == CacheInitWith(EmptyDb, NullObj)

NextCache ==
    \/ \E u \in Urls, a \in RebuildArgs : RebuildCache(u, a)
    \/ \E i \in 1..Len(inflight), d \in Datasets, w \in BOOLEAN : TransformResolves(i, d, w)
    \/ \E i \in 1..Len(inflight) : TransformRejects(i)
    \/ \E c \in ConfigInputs : UpdateConfig(c)
    \/ PollTick
    \/ \E f \in Filters : SetLastFilter(f)
    \/ ClearLastFilter
    \/ TickCache

\* cron.schedule unless the handle is set already: the live jobs after it
scheduleOnce(jobs) == IF jobs > 0 THEN jobs ELSE jobs + 1

\* new EPGManager(): no database handle yet, nothing running
EpgInitWith(disk) ==
    /\ edb = NullObj
    /\ isUpdating = FALSE
    /\ lastUpdate = NullTime
    /\ edisk = disk
    /\ refresh = <<>>
    /\ eout = [op |-> "other", issued |-> 0, failed |-> FALSE, failures |-> 0]
    /\ cronJob = 0
    /\ cleanupJob = scheduleOnce(0)
    /\ lastEpgUrl = Null

EpgInit0 == EpgInitWith(NullObj)

-----------------------------------------------------------------------------
(* PythonRunner: executeScript over the files of its directory *)

\* the .m3u and .m3u8 files the directory can hold: this.m3uOutputPath and the
\* file a script writes under a name of its own
OutputFile == "generated_playlist.m3u"
OtherFile  == "playlist.m3u8"
PlaylistFiles == {OutputFile, OtherFile}

ScriptNotFound == <<"Script Python non trovato">>
NotGenerated   == <<"File M3U non generato dallo script">>
ExecutionError == <<"Errore esecuzione: ">>
DownloadError  == <<"Errore download: ">>

\* the most executeScript calls past their flag test at once
MaxRuns == 2

\* what the last step of the runner did: its kind, the value an executeScript
\* call returned with, the files it deleted and the commands it spawned
RunnerStep(op, returned, deleted, spawned) ==
    [op |-> op, returned |-> returned, deleted |-> deleted, spawned |-> spawned]

\* new PythonRunner(), in a directory where temp_script.py and playlist files
\* may be left from before
NewRunner(script, files) ==
    [isRunning |-> FALSE, lastError |-> Null, lastExecution |-> NullTime,
     script |-> script, files |-> files, runs |-> <<>>,
     step |-> RunnerStep("other", FALSE, 0, 0)]

\* an executeScript that never looks at the flag
AlreadyRunningNever(flag) == FALSE

\* if (this.isRunning) return false
AlreadyRunning(flag) == flag

\* cleanupM3UFiles: every .m3u and .m3u8 file is unlinked; a failed readdirSync
\* or unlinkSync is caught and leaves the files
cleanupM3UFiles(files, unlinkOk) == IF unlinkOk THEN {} ELSE files

\* the catch block, and the return false of a script that left no playlist
Failed(r, i, error, op) ==
    [r EXCEPT !.lastError = error, !.isRunning = FALSE,
              !.runs = SubSeq(@, 1, i - 1) \o SubSeq(@, i + 1, Len(@)),
              !.step = RunnerStep(op, FALSE, 0, 0)]

\* lastExecution = new Date(); lastError = null; isRunning = false; return true
Succeeded(r, i, files, t) ==
    [r EXCEPT !.files = files, !.lastExecution = t, !.lastError = Null,
              !.isRunning = FALSE,
              !.runs = SubSeq(@, 1, i - 1) \o SubSeq(@, i + 1, Len(@)),
              !.step = RunnerStep("true", TRUE, 0, 0)]

\* executeScript up to its first await, of `python3 --version`
executeScript(r, unlinkOk) ==
    IF AlreadyRunning(r.isRunning)
    THEN [r EXCEPT !.step = RunnerStep("busy", FALSE, 0, 0)]
    ELSE IF ~r.script
    THEN [r EXCEPT !.lastError = ScriptNotFound,
                   !.step = RunnerStep("noscript", FALSE, 0, 0)]
    ELSE LET left == cleanupM3UFiles(r.files, unlinkOk)
         IN  [r EXCEPT !.isRunning = TRUE, !.files = left,
                       !.runs = Append(@, "python3"),
                       !.step = RunnerStep("start", FALSE,
                                           Cardinality(r.files) - Cardinality(left), 1)]

\* the files after the script's output was found in the directory: the output
\* path is unlinked if it exists, and the first file found is copied to it
\* unless it is the output path itself
Renamed(files, sourcePath) ==
    IF sourcePath # OutputFile THEN files \cup {OutputFile}
    ELSE files \ {OutputFile}

\* executeScript after the script exited with code 0: sourcePath is the first
\* entry of findAllM3UFiles, named tells whether stdout names a playlist that
\* exists elsewhere, copyOk whether unlinkSync and copyFileSync go through
afterScript(r, i, sourcePath, named, copyOk, t) ==
    IF r.files # {}
    THEN IF copyOk THEN Succeeded(r, i, Renamed(r.files, sourcePath), t)
         ELSE Failed(r, i, ExecutionError, "threw")
    ELSE IF named
    THEN IF copyOk THEN Succeeded(r, i, r.files \cup {OutputFile}, t)
         ELSE Failed(r, i, ExecutionError, "threw")
    ELSE Failed(r, i, NotGenerated, "nofile")

\* everything outside the runner
managerVars == <<now, config, cache, lastFilter, polling, cdb, cdisk, inflight, out,
                 edb, isUpdating, lastUpdate, edisk, refresh, eout,
                 cronJob, cleanupJob, lastEpgUrl>>

\* downloadScript(url): the script is written, or the error recorded
DownloadScript(ok) ==
    /\ runner' = IF ok THEN [runner EXCEPT !.script = TRUE,
                                           !.step = RunnerStep("download", TRUE, 0, 0)]
                 ELSE [runner EXCEPT !.lastError = DownloadError,
                                     !.step = RunnerStep("download", FALSE, 0, 0)]
    /\ UNCHANGED managerVars

ExecuteScript(unlinkOk) ==
    /\ AlreadyRunning(runner.isRunning) \/ ~runner.script \/ Len(runner.runs) < MaxRuns
    /\ runner' = executeScript(runner, unlinkOk)
    /\ UNCHANGED managerVars

\* `python3 --version` settles: on failure `python --version` is tried, and if
\* that fails too the catch block runs; otherwise the script is spawned
VersionSettles(i, ok) ==
    /\ runner.runs[i] \in {"python3", "python"}
    /\ runner' = IF ok THEN [runner EXCEPT !.runs[i] = "script",
                                           !.step = RunnerStep("run", FALSE, 0, 1)]
                 ELSE IF runner.runs[i] = "python3"
                 THEN [runner EXCEPT !.runs[i] = "python",
                                     !.step = RunnerStep("retry", FALSE, 0, 1)]
                 ELSE Failed(runner, i, ExecutionError, "threw")
    /\ UNCHANGED managerVars

\* the running script writes a playlist file into the directory
ScriptWrites(i, file) ==
    /\ runner.runs[i] = "script"
    /\ file \notin runner.files
    /\ runner' = [runner EXCEPT !.files = @ \cup {file},
                                !.step = RunnerStep("wrote", FALSE, 0, 0)]
    /\ UNCHANGED managerVars

\* the script exits: with an error, or with code 0 and the rest of the try block
ScriptSettles(i, threw, sourcePath, named, copyOk) ==
    /\ runner.runs[i] = "script"
    /\ runner.files # {} => sourcePath \in runner.files
    /\ runner' = IF threw THEN Failed(runner, i, ExecutionError, "threw")
                 ELSE afterScript(runner, i, sourcePath, named, copyOk, now)
    /\ UNCHANGED managerVars

\* the process starts: the catalog manager is constructed, the guide stays as built
InitCache ==
    /\ now = BootTime
    /\ runner = NewRunner(FALSE, {})
    /\ CacheInit
    /\ EpgInit0

SpecCache == InitCache /\ [][NextCache]_vars

-----------------------------------------------------------------------------
(* EPGManager: guide data *)

\* a guide normalizer whose character class lets '#' through
epgNormalizeIdKeepingHash(id) ==
    IF id = Null \/ id = Undefined THEN <<>>
    ELSE trim(SelectSeq(toLowerCase(id), LAMBDA c : IsWordOrDot(c) \/ c = "#"))

\* EPGManager.normalizeId
epgNormalizeId(id) == NormalizeChars(id)

\* normalizeId of meta-handler.js
metaNormalizeId(id) == NormalizeChars(id)

\* a start/stop attribute "YYYYMMDDHHMMSS +HHMM": the wall-clock instant it spells,
\* as milliseconds, and the offset it spells, as minutes
DateString(wall, offsetMinutes) == [wall |-> wall, tz |-> offsetMinutes]
Malformed == [malformed |-> TRUE]

\* parseEPGDate: the instant, or null when the attribute does not match
parseEPGDate(d) ==
    IF d = Malformed THEN NullTime ELSE d.wall - d.tz * Minute

\* process.env.TIMEZONE_OFFSET || '+2:00', as offsetMinutes
OffsetMinutes == 2 * 60

\* formatDateIT: hour and minute of the instant shifted by offsetMinutes
formatDateIT(t) ==
    LET minutes == ((t + OffsetMinutes * 60000) \div 60000) % (24 * 60)
    IN  <<minutes \div 60, minutes % 60>>

E1 == <<"http", "://guide/one.xml">>
E2 == <<"http", "://guide/two.xml", ".", "g", "z">>

Rai1Upper == <<"R","A","I"," ","1">>
Rai1Lower == <<"r","a","i","1">>
SkyRaw    == <<"S","k","y">>
HashRaw   == <<"#">>

Programme(channel, start, stop, title) ==
    [channel |-> channel, start |-> start, stop |-> stop, title |-> title]

\* programme elements, placed around the boot instant
PNow    == Programme(Rai1Upper, DateString(BootTime + Hour, 60),
                     DateString(BootTime + 30 * Minute, 0), <<"now">>)
PNext   == Programme(Rai1Lower, DateString(BootTime + 30 * Minute, 0),
                     DateString(BootTime + 31 * Minute, 0), <<"next">>)
PLater  == Programme(Rai1Lower, DateString(BootTime + 31 * Minute, 0),
                     DateString(BootTime + Hour, 0), <<"later">>)
PStale  == Programme(SkyRaw, DateString(BootTime - 2 * Hour, 0),
                     DateString(BootTime - Hour + 15 * Minute, 0), <<"stale">>)
PAncient == Programme(SkyRaw, DateString(BootTime - 3 * Hour, 0),
                      DateString(BootTime - 2 * Hour, 0), <<"ancient">>)
PFuture == Programme(SkyRaw, DateString(BootTime + 7 * Day + 15 * Minute, 0),
                     DateString(BootTime + 7 * Day + Hour, 0), <<"future">>)
PBadDate == Programme(Rai1Lower, Malformed, DateString(BootTime + Hour, 0), <<"bad">>)
PInverted == Programme(SkyRaw, DateString(BootTime + 30 * Minute, 0),
                       DateString(BootTime + 15 * Minute, 0), <<"inverted">>)
PNoId   == Programme(HashRaw, DateString(BootTime, 0),
                     DateString(BootTime + 30 * Minute, 0), Undefined)

\* parsed XMLTV documents: tv.channel (id, icon src) and tv.programme
DocA == [channel   |-> << [id |-> Rai1Upper, icon |-> <<"a.png">>],
                          [id |-> HashRaw, icon |-> <<"h.png">>] >>,
         programme |-> <<PNow, PStale, PAncient, PFuture, PBadDate>>]
DocB == [channel   |-> << [id |-> Rai1Lower, icon |-> <<"b.png">>],
                          [id |-> SkyRaw, icon |-> Undefined] >>,
         programme |-> <<PNext, PLater, PNow, PInverted, PNoId>>]
\* a document with no programme element
DocC == [channel   |-> << [id |-> SkyRaw, icon |-> <<"c.png">>] >>,
         programme |-> <<>>]
Docs == {DocA, DocB, DocC}

\* the fetch, decode or parse of one URL failed
FetchFailed == [failed |-> TRUE]

GuideIds == {Null, <<>>, <<"R","A","I","1">>, Rai1Lower, <<"s","k","y">>, HashRaw, <<"z">>}

-----------------------------------------------------------------------------
(* EPGManager: the guide database *)

\* the schema of initializeDatabase, with no rows
EmptyGuide == [programs |-> <<>>, icons |-> <<>>]

\* a plain INSERT into a table without the key: the row is added
AppendIcon(rows, id, url) == Append(rows, [channel_id |-> id, icon_url |-> url])

\* INSERT OR REPLACE INTO channel_icons: the row of that channel_id is replaced
UpsertIcon(rows, id, url) ==
    SelectSeq(rows, LAMBDA r : r.channel_id # id) \o <<[channel_id |-> id, icon_url |-> url]>>

RECURSIVE InsertIcons(_, _)
InsertIcons(rows, channels) ==
    IF channels = <<>> THEN rows
    ELSE LET id   == epgNormalizeId(Head(channels).id)
             icon == Head(channels).icon
         IN  InsertIcons(IF ~Falsy(id) /\ ~Falsy(icon) THEN UpsertIcon(rows, id, icon)
                         ELSE rows,
                         Tail(channels))

TooOldNever(stop, t) == FALSE

\* if (stop < oneHourAgo) continue
TooOld(stop, t) == stop < t - 60 * 60 * 1000

\* if (start > sevenDaysFromNow) continue
TooFar(start, t) == start > t + 7 * 24 * 60 * 60 * 1000

\* the loop body of processEPGInChunks: whether the programme is inserted at t
Accepts(p, t) ==
    LET start == parseEPGDate(p.start)
        stop  == parseEPGDate(p.stop)
    IN  /\ start # NullTime /\ stop # NullTime
        /\ ~TooOld(stop, t)
        /\ ~TooFar(start, t)

\* ... || 'Nessun Titolo'
NessunTitolo == <<"Nessun Titolo">>

\* the row stmt.run inserts; `at` records the instant of ingestion
Row(p, t) ==
    [channel_id |-> epgNormalizeId(p.channel),
     start_time |-> parseEPGDate(p.start),
     stop_time  |-> parseEPGDate(p.stop),
     title      |-> IF Falsy(p.title) THEN NessunTitolo ELSE p.title,
     at         |-> t]

RECURSIVE InsertPrograms(_, _, _)
InsertPrograms(rows, ps, t) ==
    IF ps = <<>> THEN rows
    ELSE InsertPrograms(IF Accepts(Head(ps), t) THEN Append(rows, Row(Head(ps), t)) ELSE rows,
                        Tail(ps), t)

\* processEPGInChunks on a parsed document at instant t
processEPGInChunks(db, doc, t) ==
    [programs |-> InsertPrograms(db.programs, doc.programme, t),
     icons    |-> InsertIcons(db.icons, doc.channel)]

\* DELETE FROM programs WHERE stop_time < oneHourAgo
Expired(r, t) == r.stop_time < t - 60 * 60 * 1000

cleanupOldPrograms(db, t) ==
    [db EXCEPT !.programs = SelectSeq(@, LAMBDA r : ~Expired(r, t))]

\* a refresh that leaves the tables as they are
KeepGuide(db) == db

\* DELETE FROM programs; DELETE FROM channel_icons
ClearGuide(db) == [programs |-> <<>>, icons |-> <<>>]

-----------------------------------------------------------------------------
(* EPGManager: queries *)

IsCurrentStrictly(r, id, t) == r.channel_id = id /\ r.start_time < t /\ r.stop_time > t

\* WHERE channel_id = ? AND start_time <= ? AND stop_time >= ?
IsCurrent(r, id, t) == r.channel_id = id /\ r.start_time <= t /\ r.stop_time >= t

IsUpcomingAtAnyTime(r, id, t) == r.channel_id = id

\* WHERE channel_id = ? AND start_time >= ?
IsUpcoming(r, id, t) == r.channel_id = id /\ r.start_time >= t

\* the object a query returns for a row
Formatted(r) ==
    [title |-> r.title, start |-> formatDateIT(r.start_time), stop |-> formatDateIT(r.stop_time)]

\* the rows LIMIT 1 may pick for getCurrentProgram: SQL leaves open which one
CurrentRows(db, channelId, t) ==
    IF Falsy(channelId) \/ db = NullObj THEN {}
    ELSE {i \in 1..Len(db.programs) : IsCurrent(db.programs[i], epgNormalizeId(channelId), t)}

\* the results getCurrentProgram may return
getCurrentProgram(db, channelId, t) ==
    IF CurrentRows(db, channelId, t) = {} THEN {NullObj}
    ELSE {Formatted(db.programs[i]) : i \in CurrentRows(db, channelId, t)}

\* LIMIT 2
UpcomingLimit == 2

\* the row lists ORDER BY start_time ASC LIMIT 2 may give: rows of equal start_time
\* come in an order SQL leaves open
UpcomingRows(db, channelId, t) ==
    IF Falsy(channelId) \/ db = NullObj THEN {<<>>}
    ELSE LET hits == {i \in 1..Len(db.programs) :
                         IsUpcoming(db.programs[i], epgNormalizeId(channelId), t)}
             n    == Min(UpcomingLimit, Cardinality(hits))
             Start(i) == db.programs[i].start_time
         IN  {s \in [1..n -> hits] :
                 /\ \A a, b \in 1..n : a < b => s[a] # s[b] /\ Start(s[a]) <= Start(s[b])
                 /\ \A k \in hits : (\A a \in 1..n : s[a] # k) =>
                                      \A a \in 1..n : Start(s[a]) <= Start(k)}

\* a getUpcomingPrograms that answers null, as getCurrentProgram does, where it
\* finds no database or no id
getUpcomingProgramsOrNull(db, channelId, t) ==
    IF Falsy(channelId) \/ db = NullObj THEN {NullObj}
    ELSE {[a \in 1..Len(s) |-> Formatted(db.programs[s[a]])] : s \in UpcomingRows(db, channelId, t)}

\* the results getUpcomingPrograms may return
getUpcomingPrograms(db, channelId, t) ==
    {[a \in 1..Len(s) |-> Formatted(db.programs[s[a]])] : s \in UpcomingRows(db, channelId, t)}

\* the result of getChannelIcon
getChannelIcon(db, channelId) ==
    IF Falsy(channelId) \/ db = NullObj THEN Null
    ELSE LET hits == SelectSeq(db.icons, LAMBDA r : r.channel_id = epgNormalizeId(channelId))
         IN  IF hits = <<>> THEN Null ELSE hits[1].icon_url

-----------------------------------------------------------------------------
(* EPGManager: startEPGUpdate and the scheduled jobs *)

\* EPGManager.saveDatabase: writeFileSync may throw, which is caught and logged
epgSaveDatabase(db, disk, writeOk) == IF writeOk THEN db ELSE disk

\* s.startsWith(t)
startsWith(s, t) == Len(t) <= Len(s) /\ SubSeq(s, 1, Len(t)) = t

\* s.split(sep), sep one character
RECURSIVE split(_, _)
split(s, sep) ==
    IF \A i \in 1..Len(s) : s[i] # sep THEN <<s>>
    ELSE LET k == CHOOSE i \in 1..Len(s) : s[i] = sep /\ \A j \in 1..(i - 1) : s[j] # sep
         IN  <<SubSeq(s, 1, k - 1)>> \o split(SubSeq(s, k + 1, Len(s)), sep)

\* what axios.get(url) of readExternalFile may give
RespError == [error |-> TRUE]
RespXml   == [data |-> <<"<?xml", " version">>]
RespList  == [data |-> E1 \o <<"\n", "\n", "#", "\n">> \o E2]
RespText  == [data |-> <<"n", "o">>]
Responses == {RespError, RespXml, RespList, RespText}

\* whether readExternalFile issues a request for this url
NeedsRequest(url) ==
    /\ url # Null /\ url # Undefined
    /\ ~includes(url, <<",">>)
    /\ ~endsWith(url, <<".", "g", "z">>)

\* readExternalFile, given the response to its request; a null url makes it throw
readExternalFile(url, response) ==
    IF includes(url, <<",">>) THEN
        LET parts == split(url, ",") IN [i \in 1..Len(parts) |-> trim(parts[i])]
    ELSE IF endsWith(url, <<".", "g", "z">>) THEN <<url>>
    ELSE IF response = RespError THEN <<url>>
    ELSE IF includes(response.data, <<"<?xml">>) \/ includes(response.data, <<"<tv">>)
         THEN <<url>>
    ELSE LET urls == SelectSeq(split(response.data, "\n"),
                               LAMBDA line : trim(line) # <<>> /\ startsWith(line, <<"http">>))
         IN  IF Len(urls) > 0 THEN urls ELSE <<url>>

\* the url arguments startEPGUpdate is called with
UrlPair == E1 \o <<",", " ">> \o E2
UrlInputs == {E1, E2, UrlPair, Null}

\* the most startEPGUpdate calls past their flag test at once
MaxRefresh == 2

GuideStep(op, issued) == [op |-> op, issued |-> issued, failed |-> FALSE, failures |-> 0]

\* a step in which one downloadAndProcessEPG settled
DownloadStep(op, issued, result, failuresBefore) ==
    [op |-> op, issued |-> issued, failed |-> result = FetchFailed,
     failures |-> IF result = FetchFailed THEN failuresBefore + 1 ELSE failuresBefore]

BusyNever(flag) == FALSE

\* if (this.isUpdating) return
Busy(flag) == flag

\* new SQL.Database(buffer) of the file, or new SQL.Database(), then the schema
InitializeDatabase ==
    /\ edb = NullObj
    /\ edb' = IF edisk = NullObj THEN EmptyGuide ELSE edisk
    /\ eout' = GuideStep("other", 0)
    /\ UNCHANGED <<now, isUpdating, lastUpdate, edisk, refresh, cacheVars, jobVars>>

\* startEPGUpdate(url) called by `by`, up to its first await; a skipped call
\* returns at once, and an initializeEPG awaiting it goes on to its cron.schedule
startEPGUpdateCall(url, by) ==
    IF Busy(isUpdating)
    THEN /\ eout' = GuideStep("skip", 0)
         /\ cronJob' = IF by = "init" THEN scheduleOnce(cronJob) ELSE cronJob
         /\ UNCHANGED <<now, edb, isUpdating, lastUpdate, edisk, refresh, cacheVars>>
    ELSE /\ Len(refresh) < MaxRefresh
         /\ isUpdating' = TRUE
         /\ refresh' = Append(refresh, [phase |-> "resolving", url |-> url, urls |-> <<>>,
                                        failures |-> 0, by |-> by])
         /\ eout' = GuideStep("start", IF NeedsRequest(url) THEN 1 ELSE 0)
         /\ UNCHANGED <<now, edb, lastUpdate, edisk, cacheVars, cronJob>>

\* startEPGUpdate(url) called from outside the manager
StartEPGUpdate(url) ==
    /\ startEPGUpdateCall(url, "ext")
    /\ UNCHANGED <<cleanupJob, lastEpgUrl>>

\* a finally that leaves the flag as it is
FinallyKeepingFlag(i) ==
    /\ isUpdating' = isUpdating
    /\ lastUpdate' = now
    /\ refresh' = RemoveAt(refresh, i)
    /\ cronJob' = IF refresh[i].by = "init" THEN scheduleOnce(cronJob) ELSE cronJob
    /\ UNCHANGED <<cleanupJob, lastEpgUrl>>

\* finally { isUpdating = false; lastUpdate = Date.now() }, and the rest of an
\* initializeEPG that awaited this refresh
Finally(i) ==
    /\ isUpdating' = FALSE
    /\ lastUpdate' = now
    /\ refresh' = RemoveAt(refresh, i)
    /\ cronJob' = IF refresh[i].by = "init" THEN scheduleOnce(cronJob) ELSE cronJob
    /\ UNCHANGED <<cleanupJob, lastEpgUrl>>

\* readExternalFile settles: the tables are cleared and the first download starts;
\* with no database handle, or a null url, the catch and the finally run
ResolveUrls(i, response) ==
    /\ refresh[i].phase = "resolving"
    /\ NeedsRequest(refresh[i].url) \/ response = RespError
    /\ IF refresh[i].url = Null \/ edb = NullObj
       THEN /\ Finally(i)
            /\ eout' = GuideStep("error", 0)
            /\ UNCHANGED <<now, edb, edisk, cacheVars>>
       ELSE /\ edb' = ClearGuide(edb)
            /\ refresh' = [refresh EXCEPT ![i] =
                              [phase |-> "fetching", url |-> @.url,
                               urls |-> readExternalFile(@.url, response),
                               failures |-> 0, by |-> @.by]]
            /\ eout' = GuideStep("clear", 1)
            /\ UNCHANGED <<now, isUpdating, lastUpdate, edisk, cacheVars, jobVars>>

\* a downloadAndProcessEPG whose failure empties the tables
DownloadedOrCleared(db, disk, result, t, writeOk) ==
    IF result = FetchFailed THEN [db |-> ClearGuide(db), disk |-> disk]
    ELSE LET after == processEPGInChunks(db, result, t)
         IN  [db   |-> after,
              disk |-> IF result.programme = <<>> THEN disk
                       ELSE epgSaveDatabase(after, disk, writeOk)]

\* a downloadAndProcessEPG whose failure brings back the rows of the file
DownloadedOrRestored(db, disk, result, t, writeOk) ==
    IF result = FetchFailed THEN [db |-> IF disk = NullObj THEN db ELSE disk, disk |-> disk]
    ELSE LET after == processEPGInChunks(db, result, t)
         IN  [db   |-> after,
              disk |-> IF result.programme = <<>> THEN disk
                       ELSE epgSaveDatabase(after, disk, writeOk)]

\* the database and the file after downloadAndProcessEPG of one URL settles
Downloaded(db, disk, result, t, writeOk) ==
    IF result = FetchFailed THEN [db |-> db, disk |-> disk]
    ELSE LET after == processEPGInChunks(db, result, t)
         IN  [db   |-> after,
              disk |-> IF result.programme = <<>> THEN disk
                       ELSE epgSaveDatabase(after, disk, writeOk)]

\* one downloadAndProcessEPG settles; after the last, cleanupOldPrograms and finally
DownloadSettles(i, result, writeOk, cleanupWriteOk) ==
    /\ refresh[i].phase = "fetching"
    /\ LET d == Downloaded(edb, edisk, result, now, writeOk)
       IN  IF Len(refresh[i].urls) > 1
           THEN /\ edb' = d.db
                /\ edisk' = d.disk
                /\ cleanupWriteOk
                /\ refresh' = [refresh EXCEPT ![i].urls = Tail(@),
                                               ![i].failures = IF result = FetchFailed
                                                               THEN @ + 1 ELSE @]
                /\ eout' = DownloadStep("fetched", 1, result, refresh[i].failures)
                /\ UNCHANGED <<now, isUpdating, lastUpdate, cacheVars, jobVars>>
           ELSE /\ edb' = cleanupOldPrograms(d.db, now)
                /\ edisk' = epgSaveDatabase(edb', d.disk, cleanupWriteOk)
                /\ Finally(i)
                /\ eout' = DownloadStep("done", 0, result, refresh[i].failures)
                /\ UNCHANGED <<now, cacheVars>>

\* a cleanupOldPrograms that returns the number of rows its DELETE removed
RemovedByDelete(db, t) == Len(db.programs) - Len(cleanupOldPrograms(db, t).programs)

\* return result.changes || 0: result is what Database.run of sql.js returns, the
\* Database itself, which has no property `changes`
RemovedCount(db, t) == 0

\* the six-hourly job of schedulePeriodicCleanup; it throws with no database handle
PeriodicCleanup(writeOk) ==
    /\ cleanupJob > 0
    /\ IF edb = NullObj
       THEN /\ writeOk
            /\ UNCHANGED <<edb, edisk>>
       ELSE /\ edb' = cleanupOldPrograms(edb, now)
            /\ edisk' = epgSaveDatabase(edb', edisk, writeOk)
    /\ eout' = IF edb = NullObj THEN GuideStep("cleanup", 0)
               ELSE [op |-> "cleanup", issued |-> 0, failed |-> FALSE, failures |-> 0,
                     removed |-> RemovedCount(edb, now)]
    /\ UNCHANGED <<now, isUpdating, lastUpdate, refresh, cacheVars, jobVars>>

\* the instants the guide is observed at
EpgInstants ==
    { BootTime, BootTime + 15 * Minute, BootTime + 31 * Minute }

TickEPG ==
    /\ \E t \in EpgInstants : t > now /\ (\A u \in EpgInstants : u > now => t <= u) /\ now' = t
    /\ eout' = GuideStep("other", 0)
    /\ UNCHANGED <<edb, isUpdating, lastUpdate, edisk, refresh, cacheVars, jobVars>>

\* data/epg.db as a previous run of the process left it
GuideIngestedAt == BootTime - 30 * Minute
PersistedGuide ==
    processEPGInChunks(EmptyGuide, DocA, GuideIngestedAt)

EpgInit ==
    \/ EpgInitWith(NullObj)             \* no data/epg.db
    \/ EpgInitWith(PersistedGuide)

NextEPG ==
    \/ InitializeDatabase
    \/ \E u \in UrlInputs : StartEPGUpdate(u)
    \/ \E i \in 1..Len(refresh), r \in Responses : ResolveUrls(i, r)
    \/ \E i \in 1..Len(refresh), d \in Docs \cup {FetchFailed}, w, c \in BOOLEAN :
          DownloadSettles(i, d, w, c)
    \/ \E w \in BOOLEAN : PeriodicCleanup(w)
    \/ TickEPG

\* the process starts: the guide manager is constructed, the catalog stays as built
InitEPG ==
    /\ now = BootTime
    /\ runner = NewRunner(FALSE, {})
    /\ CacheInit0
    /\ EpgInit

SpecEPG == InitEPG /\ [][NextEPG]_vars

-----------------------------------------------------------------------------
(* The recurring triggers of both managers *)

\* an isEPGAvailable that looks at the table only
isEPGAvailableIgnoringFlag(db, updating) ==
    IF db = NullObj THEN FALSE ELSE Len(db.programs) > 0

\* EPGManager.isEPGAvailable
isEPGAvailable(db, updating) ==
    IF db = NullObj \/ updating THEN FALSE ELSE Len(db.programs) > 0

\* initializeEPG(url): skipped for the same URL with a guide at hand; else the
\* URL is recorded and startEPGUpdate awaited, and then the daily job scheduled
InitializeEPG(url) ==
    IF lastEpgUrl = url /\ isEPGAvailable(edb, isUpdating)
    THEN /\ eout' = GuideStep("other", 0)
         /\ UNCHANGED <<now, edb, isUpdating, lastUpdate, edisk, refresh, cacheVars, jobVars>>
    ELSE /\ lastEpgUrl' = url
         /\ startEPGUpdateCall(url, "init")
         /\ UNCHANGED cleanupJob

\* the daily job fires: startEPGUpdate(this.lastEpgUrl)
DailyRefresh ==
    /\ cronJob > 0
    /\ startEPGUpdateCall(lastEpgUrl, "cron")
    /\ UNCHANGED <<cleanupJob, lastEpgUrl>>

\* schedulePeriodicCleanup called again
SchedulePeriodicCleanup ==
    /\ cleanupJob' = scheduleOnce(cleanupJob)
    /\ eout' = GuideStep("other", 0)
    /\ UNCHANGED <<now, edb, isUpdating, lastUpdate, edisk, refresh, cacheVars,
                   cronJob, lastEpgUrl>>

\* startPolling called from outside the manager
StartPolling ==
    /\ polling' = startPolling(polling)
    /\ out' = OtherStep
    /\ UNCHANGED <<now, config, cache, lastFilter, cdb, cdisk, inflight, epgVars>>

\* updateConfig arguments: a changed playlist with a changed interval, and a
\* changed interval alone
JobConfigInputs ==
    { [m3u |-> U2, update_interval |-> I0030],
      [update_interval |-> I0000] }

InitJobs ==
    /\ now = BootTime
    /\ runner = NewRunner(FALSE, {})
    /\ CacheInit0
    /\ EpgInit0

\* the calls that register or cancel triggers, and the completions they await
NextJobs ==
    \/ StartPolling
    \/ Cleanup
    \/ \E c \in JobConfigInputs : UpdateConfig(c)
    \/ \E i \in 1..Len(inflight) : TransformResolves(i, DataA, TRUE)
    \/ \E i \in 1..Len(inflight) : TransformRejects(i)
    \/ InitializeDatabase
    \/ \E u \in {E2, UrlPair} : InitializeEPG(u)
    \/ SchedulePeriodicCleanup
    \/ DailyRefresh
    \/ \E i \in 1..Len(refresh) : ResolveUrls(i, RespError)
    \/ \E i \in 1..Len(refresh) : DownloadSettles(i, DocB, TRUE, TRUE)

SpecJobs == InitJobs /\ [][NextJobs]_vars

-----------------------------------------------------------------------------
(* The lookups as functions of their arguments: a published snapshot drawn   *)
(* from small catalogs, and one action per lookup recording what it returned *)

ChAlias == [id   |-> <<"t","v","|","n","e","w","s","1">>,
            name |-> <<"A","l","i","a","s">>,
            genre |-> <<GSport>>,
            tvg  |-> <<"s","k","y">>]

Channels == {ChNews1, ChNews2, ChSport, ChOther, ChAlias}

\* the most channels of a drawn catalog
MaxChannels == 2

\* the channel lists loadAndTransform may hand over: distinct channels, any order
Catalogs ==
    UNION { {s \in [1..n -> Channels] : \A i, j \in 1..n : i # j => s[i] # s[j]} :
              n \in 0..MaxChannels }

\* the longest raw id drawn
MaxIdLen == 3

IdAlphabet == {"A", "1", "_", ".", " ", "#"}

RawStrings == UNION { [1..n -> IdAlphabet] : n \in 0..MaxIdLen }

\* the ids getChannel is asked for
RawIds == QueryIds \cup { Null, <<" ">>, <<"N","1",".","i","t">>, <<"s","k","y">>,
                          <<"S","K","Y"," ","n","e","w","s">> }

\* a process whose first rebuildCache published the catalog chs and stored it
QueryInitWith(chs) ==
    LET c == Published([channels |-> chs, genres |-> <<GNews, GSport>>, epgUrls |-> <<>>],
                       U1, BootTime)
        db == saveCacheToDB(c, EmptyDb).db
    IN  /\ cache = c
        /\ cdb = db
        /\ cdisk = db
        /\ config = Spread(<<>>, [m3u |-> U1])
        /\ lastFilter = NullObj
        /\ polling = startPolling(0)
        /\ inflight = <<>>
        /\ out = [op |-> "other", by |-> "none", win |-> NoCounts]

InitQuery ==
    /\ now = BootTime
    /\ runner = NewRunner(FALSE, {})
    /\ \/ CacheInit0
       \/ \E chs \in Catalogs : QueryInitWith(chs)
    /\ EpgInit0

\* getChannel(channelId) is called
GetChannel(channelId) ==
    /\ out' = [op |-> "getChannel", arg |-> channelId,
               result |-> getChannel(config, cache, channelId)]
    /\ UNCHANGED <<now, config, cache, lastFilter, polling, cdb, cdisk, inflight, epgVars>>

\* normalizeId(id) is called, on the catalog side and on the guide side
NormalizeId(id) ==
    /\ out' = [op |-> "normalizeId", arg |-> id,
               result |-> cacheNormalizeId(config, id, FALSE),
               guide |-> epgNormalizeId(id),
               meta |-> metaNormalizeId(id)]
    /\ UNCHANGED <<now, config, cache, lastFilter, polling, cdb, cdisk, inflight, epgVars>>

NextQuery ==
    \E id \in RawIds : GetChannel(id)

SpecQuery == InitQuery /\ [][NextQuery]_vars

\* the normalizers alone, on a process that has just started
InitNormalize ==
    /\ now = BootTime
    /\ runner = NewRunner(FALSE, {})
    /\ CacheInit0
    /\ EpgInit0

NextNormalize ==
    \E id \in RawStrings \cup {Null, Undefined} : NormalizeId(id)

SpecNormalize == InitNormalize /\ [][NextNormalize]_vars

-----------------------------------------------------------------------------
(* Claims about the catalog machine, checked under SpecCache *)

\* C1: while a rebuild is in progress no step invokes loadAndTransform, and at
\* no time are two transforms in flight: however many calls overlap one running
\* rebuild, the transform is invoked once for them all.
C1_SingleFlight ==
    [][ /\ Len(inflight') <= 1
        /\ Len(inflight) > 0 =>
              /\ cache.updateInProgress
              /\ Len(inflight') <= Len(inflight)
              /\ out'.win.transforms = 1 ]_vars

C1_Witness == Len(inflight) = 1 /\ out.op = "skip" /\ out.win.calls = 2

\* C2: the steps of a rebuildCache call that fails (its start and its catch
\* block) leave every catalog query result, for every argument, and the
\* snapshot's channels, genres, lastUpdated and source URL as they were.
SameSnapshot(c, d) ==
    /\ d.stremioData = c.stremioData
    /\ d.lastUpdated = c.lastUpdated
    /\ d.m3uUrl = c.m3uUrl

C3_SnapshotReplacedOnlyOnSuccess ==
    [][ cache'.stremioData # cache.stremioData => out'.op = "ok" ]_vars

\* C4: the calls that overlap one running rebuild which succeeds produce together
\* one saveCacheToDB, one cacheUpdated and no cacheError, and one write of the
\* file unless the store fails; a skipped call changes neither database nor file.
C4_OneWriteOneEvent ==
    [][ /\ out'.op = "skip" => cdb' = cdb /\ cdisk' = cdisk /\ out'.win.saveCalls = 0
                                /\ out'.win.updated = 0 /\ out'.win.errors = 0
        /\ out'.op = "ok" =>
              /\ out'.win.transforms = 1
              /\ out'.win.saveCalls = 1
              /\ out'.win.updated = 1
              /\ out'.win.errors = 0
              /\ out'.win.diskWrites <= 1
              /\ out'.win.diskWrites = 1 => cdisk' = cdb' /\ cdb' # NullObj
              /\ out'.win.diskWrites = 0 => cdisk' = cdisk ]_vars

C4_Witness ==
    /\ out.op = "ok" /\ out.win.calls = 2 /\ out.win.diskWrites = 1
    /\ loadCacheFromDB(cdisk).stremioData # NullObj

\* C10: isStale is true without a snapshot, false right after a successful
\* rebuild whatever accepted interval is configured, and true once the time since
\* lastUpdated has reached the configured interval.
WithInterval(cfg, iv) == [cfg EXCEPT !["update_interval"] = iv]

Accepted(iv) ==
    /\ timeMatch(iv)
    /\ IntervalHours(iv) < 24
    /\ IntervalMinutes(iv) < 60

C10_IsStale ==
    /\ ~HasChannels(cache) => isStale(config, cache, now)
    /\ out.op = "ok" =>
          \A iv \in {i \in Intervals : Accepted(i)} :
              ~isStale(WithInterval(config, iv), cache, now)
    /\ HasChannels(cache) /\ ~NoTime(cache.lastUpdated)
          /\ now - cache.lastUpdated >= updateIntervalMs(config)
          => isStale(config, cache, now)

-----------------------------------------------------------------------------
(* Claims about the guide machine, checked under SpecEPG *)

\* the stored program rows; none while there is no database handle
Rows(db) == IF db = NullObj THEN {} ELSE {db.programs[i] : i \in 1..Len(db.programs)}

\* C5: a startEPGUpdate call made while a guide refresh is in progress leaves the
\* program and icon tables, lastUpdate and isUpdating unchanged and issues no
\* request, and at most one refresh is between its flag-set and its completion.
C5_RefreshSingleFlight ==
    [][ /\ Len(refresh') <= 1
        /\ (Len(refresh) > 0 /\ eout'.op \in {"skip", "start"}) =>
              /\ eout'.op = "skip"
              /\ eout'.issued = 0
              /\ isUpdating
              /\ UNCHANGED <<edb, lastUpdate, isUpdating, edisk, refresh>> ]_vars

C5_Witness ==
    /\ eout.op = "skip"
    /\ Len(refresh) = 1
    /\ refresh[1].phase = "fetching"
    /\ edb # NullObj
    /\ Len(edb.programs) > 0

WithinWindow(r, t) == r.stop_time >= t - Hour /\ r.start_time <= t + 7 * Day

\* C6: every stored program row has stop_time >= ingestion time - 1h and
\* start_time <= ingestion time + 7d, so an entry whose stop is more than an hour
\* before its ingestion is never stored; and when a refresh completes every stored
\* row was ingested by it and is within the same window of the completion instant.
C6_RetentionWindow ==
    [][ /\ \A r \in Rows(edb') : WithinWindow(r, r.at)
        /\ eout'.op = "done" =>
              \A r \in Rows(edb') : r.at <= now /\ WithinWindow(r, now) ]_vars

C6_Witness ==
    /\ eout.op = "done"
    /\ now = BootTime + 31 * Minute
    /\ \E r \in Rows(edb) : r.at = BootTime + 15 * Minute /\ r.title = <<"future">>
    /\ \A r \in Rows(edb) : r.title # <<"stale">>

\* C7: every stored program row has start_time < stop_time.
C7_StartBeforeStop ==
    \A r \in Rows(edb) : r.start_time < r.stop_time

RAI1 == <<"R", "A", "I", "1">>

\* the rows the claim speaks of: those of normalizeId(id) with start <= now <= stop
CurrentOf(id) ==
    {r \in Rows(edb) :
        r.channel_id = epgNormalizeId(id) /\ r.start_time <= now /\ now <= r.stop_time}

CurrentProgramAgrees(id) ==
    \A res \in getCurrentProgram(edb, id, now) :
        IF CurrentOf(id) = {} THEN res = NullObj
        ELSE \E r \in CurrentOf(id) : res = Formatted(r)

UpcomingOf(id) ==
    IF edb = NullObj THEN {}
    ELSE {i \in 1..Len(edb.programs) :
             /\ edb.programs[i].channel_id = epgNormalizeId(id)
             /\ edb.programs[i].start_time >= now}

\* C9: getUpcomingPrograms(id) returns at most 2 entries, all of them rows of
\* normalizeId(id) with start >= now, in ascending start order, and no row of
\* that id with start >= now that it leaves out starts before a returned one.
C9_UpcomingPrograms ==
    \A id \in GuideIds :
        /\ \A s \in UpcomingRows(edb, id, now) :
              /\ Len(s) <= 2
              /\ \A a \in 1..Len(s) : s[a] \in UpcomingOf(id)
              /\ \A a, b \in 1..Len(s) :
                    a < b => /\ s[a] # s[b]
                             /\ edb.programs[s[a]].start_time <= edb.programs[s[b]].start_time
              /\ \A k \in UpcomingOf(id) :
                    (\A a \in 1..Len(s) : s[a] # k) =>
                        \A a \in 1..Len(s) :
                            edb.programs[s[a]].start_time <= edb.programs[k].start_time
        /\ \A res \in getUpcomingPrograms(edb, id, now) :
              \E s \in UpcomingRows(edb, id, now) :
                  /\ Len(res) = Len(s)
                  /\ \A a \in 1..Len(s) : res[a] = Formatted(edb.programs[s[a]])

C9_Witness ==
    /\ now = BootTime
    /\ Cardinality(UpcomingOf(RAI1)) > 2
    /\ \E res \in getUpcomingPrograms(edb, RAI1, now) :
          /\ Len(res) = 2
          /\ res[1].title = <<"now">>
          /\ res[2].title = <<"next">>

-----------------------------------------------------------------------------
(* Claims about the lookups, checked under SpecQuery and SpecNormalize *)

Absent(r) == r = NullObj \/ r = UndefObj

SameResult(r1, r2) == (Absent(r1) /\ Absent(r2)) \/ r1 = r2

\* C11: whenever getChannel(a) has returned, getChannel(b) returns the same
\* channel, or is absent as well, for every raw id b with
\* normalizeId(b) = normalizeId(a), the empty normalized form included.
C11_SameNormalizedSameChannel ==
    out.op = "getChannel" =>
        \A b \in RawIds :
            cacheNormalizeId(config, b, FALSE) = cacheNormalizeId(config, out.arg, FALSE)
               => SameResult(getChannel(config, cache, b), out.result)

\* the channels of the snapshot; none without a snapshot
SnapshotChannels == IF HasChannels(cache) THEN cache.stremioData.channels ELSE <<>>

\* the channels matching the normalized id n by each of the three rules
MatchesById(n) ==
    {i \in 1..Len(SnapshotChannels) :
        cacheNormalizeId(config, replaceFirst(SnapshotChannels[i].id, <<"t","v","|">>), FALSE) = n}
MatchesByTvg(n) ==
    {i \in 1..Len(SnapshotChannels) :
        cacheNormalizeId(config, SnapshotChannels[i].tvg, FALSE) = n}
MatchesByName(n) ==
    {i \in 1..Len(SnapshotChannels) :
        cacheNormalizeId(config, SnapshotChannels[i].name, FALSE) = n}

OneOf(r, hits) == \E i \in hits : r = SnapshotChannels[i]

\* C12: getChannel(id) returns a channel matching by prefix-stripped id if any
\* channel of the catalog does; otherwise one matching by tvg id; otherwise one
\* matching by name; otherwise absent.
C12_MatchPriority ==
    out.op = "getChannel" =>
        LET n == cacheNormalizeId(config, out.arg, FALSE)
        IN  IF MatchesById(n) # {} THEN OneOf(out.result, MatchesById(n))
            ELSE IF MatchesByTvg(n) # {} THEN OneOf(out.result, MatchesByTvg(n))
            ELSE IF MatchesByName(n) # {} THEN OneOf(out.result, MatchesByName(n))
            ELSE Absent(out.result)

NormalizedAlphabet == LowerCase \cup Digits \cup {"_", "."}

\* C13: normalizeId, of the catalog and of the guide, returns for every string a
\* string of lowercase letters, digits, underscores and dots only, which it maps
\* to itself, and returns the empty string for an absent or empty input.
C13_NormalizeIdIdempotent ==
    out.op = "normalizeId" =>
        /\ cacheNormalizeId(config, out.result, FALSE) = out.result
        /\ epgNormalizeId(out.guide) = out.guide
        /\ \A i \in 1..Len(out.result) : out.result[i] \in NormalizedAlphabet
        /\ \A i \in 1..Len(out.guide) : out.guide[i] \in NormalizedAlphabet
        /\ Falsy(out.arg) => out.result = <<>> /\ out.guide = <<>>

C13_Witness ==
    /\ out.op = "normalizeId"
    /\ out.arg = <<" ", "A", "#">>
    /\ out.result = <<"a">>
    /\ out.guide = <<"a">>

-----------------------------------------------------------------------------
(* Further claims about the guide machine, checked under SpecEPG *)

\* C14: a download that fails inside a refresh leaves the rows and icons ingested
\* so far as they are and the refresh running: with URLs left, the next one is
\* requested; after the last one the refresh completes as usual, deleting only
\* expired rows.  A download that succeeds after an earlier one of the same
\* refresh failed is ingested.
C14_FailureDoesNotAbort ==
    [][ /\ (eout'.op \in {"fetched", "done"} /\ eout'.failed) =>
              /\ Len(refresh) = 1
              /\ edb'.icons = edb.icons
              /\ IF Len(refresh[1].urls) > 1
                 THEN /\ eout'.op = "fetched"
                      /\ eout'.issued = 1
                      /\ isUpdating'
                      /\ Len(refresh') = 1
                      /\ refresh'[1].phase = "fetching"
                      /\ refresh'[1].urls = Tail(refresh[1].urls)
                      /\ edb'.programs = edb.programs
                 ELSE /\ eout'.op = "done"
                      /\ edb'.programs =
                            SelectSeq(edb.programs, LAMBDA r : r.stop_time >= now - Hour)
        /\ (eout'.op \in {"fetched", "done"} /\ ~eout'.failed /\ eout'.failures > 0) =>
              \E d \in Docs :
                  edb' = IF eout'.op = "done"
                         THEN cleanupOldPrograms(processEPGInChunks(edb, d, now), now)
                         ELSE processEPGInChunks(edb, d, now) ]_vars

C14_Witness ==
    /\ eout.op = "done"
    /\ ~eout.failed
    /\ eout.failures = 1
    /\ Len(edb.programs) > 0
    /\ Len(edb.icons) > 0

-----------------------------------------------------------------------------
(* Further claims about the catalog machine, checked under SpecCache *)

\* C15: when a rebuildCache succeeds, the cacheUpdated listener finds the new
\* snapshot in place, complete, with lastUpdated = now and the flag false, and
\* finds the one durable write of that snapshot already attempted: the database
\* and the file are as the call leaves them.
C15_SwapWriteEmit ==
    [][ out'.op = "ok" =>
          /\ out'.seen.cache = cache'
          /\ out'.seen.cache.stremioData \in Datasets
          /\ out'.seen.cache.lastUpdated = now
          /\ ~out'.seen.cache.updateInProgress
          /\ out'.win.saveCalls = 1
          /\ out'.win.updated = 1
          /\ out'.seen.db = cdb'
          /\ out'.seen.disk = cdisk'
          /\ cdb # NullObj =>
                /\ out'.seen.db.metadata.lastUpdated = toString(now)
                /\ Len(out'.seen.db.channels) = Len(cache'.stremioData.channels) ]_vars

C15_Witness ==
    /\ out.op = "ok"
    /\ out.seen.cache.stremioData = DataB
    /\ out.seen.disk # NullObj
    /\ loadCacheFromDB(out.seen.disk).stremioData.channels = DataB.channels

-----------------------------------------------------------------------------
(* Claims about the recurring triggers, checked under SpecJobs *)

\* C17: whatever startPolling, updateConfig, cleanup, initializeEPG and
\* schedulePeriodicCleanup calls were made, at most one catalog polling interval,
\* at most one daily guide-refresh job and at most one guide cleanup job is live.
C17_OneTriggerEach ==
    /\ polling <= 1
    /\ cronJob <= 1
    /\ cleanupJob <= 1

C17_Witness ==
    /\ polling = 1 /\ cronJob = 1 /\ cleanupJob = 1
    /\ out.op = "ok" /\ out.by = "cfg"
    /\ lastEpgUrl = UrlPair
    /\ Len(refresh) = 1

-----------------------------------------------------------------------------
(* Claims about the staleness poll, checked under SpecCache *)

\* the tick finds a snapshot and finds it stale
TickFindsStale == HasChannels(cache) /\ isStale(config, cache, now)

\* the step leaves the whole catalog state as it was
CatalogUnchanged == UNCHANGED <<cache, config, polling, inflight, cdb, cdisk, lastFilter>>

\* the step started a rebuild for the tick, with the URL of the snapshot
TickStarted ==
    /\ out'.op = "start" /\ out'.by = "poll"
    /\ inflight' = Append(inflight, [url |-> cache.m3uUrl, by |-> "poll", restart |-> FALSE])
    /\ cache' = MarkInProgress(cache)
    /\ UNCHANGED <<config, polling, cdb, cdisk, lastFilter>>

\* C18 as stated: a poll tick starts a rebuild iff a snapshot exists and it is
\* stale, for the source URL of that snapshot; any other tick changes nothing.
C18_TickStartsIffStale ==
    [][PollTick =>
         /\ TickFindsStale => TickStarted
         /\ ~TickFindsStale => CatalogUnchanged /\ out'.op = "other"]_vars

\* C18: a poll tick calls rebuildCache iff a snapshot exists and it is stale, with
\* the source URL of that snapshot; the call starts a rebuild unless one is in
\* progress, and is then dropped; a tick that does not start one changes nothing.
C18_TickCallsIffStale ==
    [][PollTick =>
         /\ (out'.by = "poll") <=> TickFindsStale
         /\ TickFindsStale /\ ~cache.updateInProgress => TickStarted
         /\ TickFindsStale /\ cache.updateInProgress =>
                CatalogUnchanged /\ out'.op = "skip"
         /\ ~TickFindsStale => CatalogUnchanged /\ out'.op = "other"]_vars

C18_Witness ==
    /\ out.op = "start" /\ out.by = "poll"
    /\ Len(inflight) > 0
    /\ inflight[Len(inflight)].url = cache.m3uUrl
    /\ cache.m3uUrl # config["m3u"]
    /\ HasChannels(cache) /\ cache.updateInProgress

-----------------------------------------------------------------------------
(* The catalog machine with its timer and its pending loads scheduled fairly *)

\* the pending loadAndTransform of some rebuild settles
Settles ==
    \/ \E i \in 1..Len(inflight), d \in Datasets : TransformResolves(i, d, TRUE)
    \/ \E i \in 1..Len(inflight) : TransformRejects(i)

NextRetry ==
    \/ \E u \in Urls : RebuildCache(u, <<>>)
    \/ \E c \in ConfigInputs : UpdateConfig(c)
    \/ Settles
    \/ PollTick
    \/ TickCache

\* setInterval keeps firing the tick and a pending load settles; nothing obliges
\* anyone outside to call rebuildCache or updateConfig
SpecRetry ==
    /\ InitCache
    /\ [][NextRetry]_vars
    /\ WF_vars(PollTick)
    /\ WF_vars(Settles)

-----------------------------------------------------------------------------
(* Claims about retries, checked under SpecRetry *)

\* a rebuildCache call was just dropped, or a rebuild just failed
Dropped == out.op \in {"skip", "fail"}

\* a rebuild attempt was just started by a poll tick
RetriedByPoll == out.op = "start" /\ out.by = "poll"

\* somebody outside asked again and a rebuild was started for them
AskedAgain == out.op = "start" /\ out.by \in {"ext", "cfg"}

\* the snapshot is fresh: there is nothing for the poll to retry yet
Fresh == ~isStale(config, cache, now)

\* C19: after a rebuild attempt was skipped or failed, a poll tick eventually
\* starts another attempt, unless somebody outside asks again first or the
\* catalog is fresh in the meantime; the catalog is never left stale for ever
\* with no attempt coming.
C19_DroppedIsRetried == Dropped ~> (RetriedByPoll \/ AskedAgain \/ Fresh)

\* with a snapshot left in place a dropped attempt is retried by the poll: the
\* retries stop only where no snapshot is left
RetriedWhileSnapshotKept ==
    (Dropped /\ HasChannels(cache))
        ~> (RetriedByPoll \/ AskedAgain \/ Fresh \/ ~HasChannels(cache))

-----------------------------------------------------------------------------
(* Claims about a failing durable write, checked under SpecCache *)

\* the step completed a rebuild whose write to data/cache.db did not happen
WriteFailed == out'.op = "ok" /\ out'.win.diskWrites = Running.diskWrites

\* C20: when the durable write fails in a rebuildCache whose load succeeded, the
\* new snapshot is still published and served by the queries, cacheUpdated is
\* emitted with it, the call does not reject and the in-progress flag is false.
C20_WriteFailureStillServes ==
    [][WriteFailed =>
         /\ \E d \in Datasets, u \in Urls :
               /\ cache' = Published(d, u, now)
               /\ getCachedData(cache').channels = d.channels
               /\ getCachedData(cache').genres = d.genres
         /\ out'.win.updated = Count(Running.updated)
         /\ out'.seen.cache = cache'
         /\ ~out'.rejects
         /\ ~cache'.updateInProgress]_vars

C20_Witness ==
    /\ out.op = "ok" /\ out.win.diskWrites = 0 /\ out.win.saveCalls = 1
    /\ out.win.updated = 1 /\ ~out.rejects
    /\ cdb # NullObj /\ cdisk # cdb
    /\ HasChannels(cache) /\ ~cache.updateInProgress
    /\ cache.stremioData = DataB

-----------------------------------------------------------------------------
(* The catalog across a restart of the process *)

ChNews1Again == [ChNews1 EXCEPT !.name = <<"N","e","w","s"," ","1"," ","H","D">>]

\* transform outputs with two channels of one id, a genre listed twice, no
\* channel at all, and no guide URLs
DataDupIds     == [channels |-> <<ChNews1, ChNews1Again>>, genres |-> <<GNews>>,
                   epgUrls |-> <<>>]
DataDupGenres  == [channels |-> <<ChNews1, ChSport>>, genres |-> <<GNews, GSport, GNews>>,
                   epgUrls |-> <<>>]
DataNoChannels == [channels |-> <<>>, genres |-> <<GNews>>, epgUrls |-> <<>>]
DataNoEpgUrls  == [channels |-> <<ChSport>>, genres |-> <<GSport>>, epgUrls |-> Undefined]

TransformOutputs == Datasets \cup {DataDupIds, DataDupGenres, DataNoChannels, DataNoEpgUrls}

\* the process ends and module.exports runs again: initializeDatabase reads
\* data/cache.db if it exists, loadCacheFromDB builds the snapshot from it, the
\* pending loads of the old process are gone
Restart ==
    LET db == IF cdisk = NullObj THEN EmptyDb ELSE cdisk
    IN  /\ cdb' = db
        /\ cache' = loadCacheFromDB(db)
        /\ lastFilter' = NullObj
        /\ polling' = startPolling(0)
        /\ inflight' = <<>>
        /\ out' = [op |-> "restart", by |-> "none", win |-> NoCounts]
        /\ UNCHANGED <<now, config, cdisk, epgVars>>

InitRestart ==
    /\ now = BootTime
    /\ runner = NewRunner(FALSE, {})
    /\ \/ CacheInitWith(EmptyDb, NullObj)
       \/ CacheInitWith(PersistedDb, PersistedDb)
    /\ EpgInit0

NextRestart ==
    \/ \E u \in Urls : RebuildCache(u, <<>>)
    \/ \E i \in 1..Len(inflight), d \in TransformOutputs : TransformResolves(i, d, TRUE)
    \/ Restart
    \/ TickCache

SpecRestart == InitRestart /\ [][NextRestart]_vars

-----------------------------------------------------------------------------
(* Claims about the restart, checked under SpecRestart *)

\* what the claim compares of two snapshots
SameAfterRestart(a, b) ==
    /\ getCachedData(a).channels = getCachedData(b).channels
    /\ getCachedData(a).genres = getCachedData(b).genres
    /\ a.lastUpdated = b.lastUpdated
    /\ a.m3uUrl = b.m3uUrl
    /\ b.epgUrls = a.epgUrls
    /\ ~b.updateInProgress

\* the process restarts right after a rebuildCache completed
RestartAfterRebuild == out.op = "ok" /\ out'.op = "restart"

\* C21: a restart after a successful rebuildCache loads a snapshot with the same
\* channels, genres, lastUpdated, source URL and guide URLs as the one published,
\* and the flag false, whatever the transform returned.
C21_RoundTrip == [][RestartAfterRebuild => SameAfterRestart(cache, cache')]_vars

\* the same for transform outputs with distinct channel ids, distinct genres, at
\* least one channel and a list of guide URLs
PlainRoundTrip ==
    [][RestartAfterRebuild /\ (\E d \in Datasets : d = cache.stremioData)
          => SameAfterRestart(cache, cache')]_vars

-----------------------------------------------------------------------------
(* Claims about the guide's writers and its status, checked under SpecEPG *)

\* the step did not write the file data/epg.db, or wrote what was in it already
FileUntouched == edisk' = edisk

\* the step is one of the refresh in progress: a download that settled
StepOfRefresh == eout'.op \in {"fetched", "done"}

\* C22: the file of the guide database is written only by a step of the refresh
\* that holds the flag, or while no refresh is in progress; the retention cleanup
\* never writes it between a refresh's clearing of the tables and its completion.
C22_OneWriterPerRefresh ==
    [][ ~FileUntouched => (StepOfRefresh \/ ~isUpdating) ]_vars

\* a refresh has set the flag and has not reached its finally
PendingRefresh == Len(refresh) > 0

\* C23: isEPGAvailable() is true iff the programs table has a row and no refresh
\* is in progress; it is false from a refresh's setting of the flag to its end.
C23_AvailableIffRowsAndIdle ==
    /\ isEPGAvailable(edb, isUpdating)
          <=> (edb # NullObj /\ ~isUpdating /\ Len(edb.programs) > 0)
    /\ PendingRefresh => isUpdating /\ ~isEPGAvailable(edb, isUpdating)

C23_Witness ==
    /\ PendingRefresh /\ isUpdating
    /\ edb # NullObj /\ Len(edb.programs) > 0
    /\ ~isEPGAvailable(edb, isUpdating)

-----------------------------------------------------------------------------
(* The guide's age, asked at instants around whole days *)

\* a needsUpdate that waits for strictly more than 24 hours
needsUpdateAfter(last, t) ==
    IF last = NullTime \/ last = 0 THEN TRUE
    ELSE (t - last) > 24 * 60 * 60 * 1000

\* EPGManager.needsUpdate
needsUpdate(last, t) ==
    IF last = NullTime \/ last = 0 THEN TRUE
    ELSE (t - last) >= 24 * 60 * 60 * 1000

MaxDays == 2

\* the instants the age is asked at: whole days after the start, a millisecond
\* before and a millisecond after
ClockInstants ==
    { BootTime + k * Day + d : k \in 0..MaxDays, d \in {0 - 1, 0, 1} }

TickClock ==
    /\ \E t \in ClockInstants : t > now /\ now' = t
    /\ eout' = GuideStep("other", 0)
    /\ UNCHANGED <<edb, isUpdating, lastUpdate, edisk, refresh, cacheVars, jobVars>>

\* a call of needsUpdate()
NeedsUpdate ==
    /\ eout' = [op |-> "needsUpdate", issued |-> 0, failed |-> FALSE, failures |-> 0,
                result |-> needsUpdate(lastUpdate, now)]
    /\ UNCHANGED <<now, edb, isUpdating, lastUpdate, edisk, refresh, cacheVars, jobVars>>

InitClock ==
    /\ now = BootTime
    /\ runner = NewRunner(FALSE, {})
    /\ CacheInit0
    /\ EpgInitWith(NullObj)

NextClock ==
    \/ InitializeDatabase
    \/ StartEPGUpdate(E1)
    \/ \E i \in 1..Len(refresh) : ResolveUrls(i, RespXml)
    \/ \E i \in 1..Len(refresh) : DownloadSettles(i, DocA, TRUE, TRUE)
    \/ NeedsUpdate
    \/ TickClock

SpecClock == InitClock /\ [][NextClock]_vars

-----------------------------------------------------------------------------
(* Claims about the guide's age, checked under SpecClock *)

\* C24: needsUpdate() is true iff the guide was never updated or strictly more
\* than 24 hours have passed since lastUpdate; at exactly 24 hours it is false.
C24_NeedsUpdateAfter24h ==
    eout.op = "needsUpdate" =>
        (eout.result <=> (lastUpdate = NullTime \/ now - lastUpdate > Day))

-----------------------------------------------------------------------------
(* Further claims about the refresh, checked under SpecEPG *)

\* C25: lastUpdate changes only in the step that completes a refresh; a refresh
\* that aborts with an error and a skipped call leave lastUpdate and the answer
\* of needsUpdate() as they were.
C25_LastUpdateOnlyOnSuccess ==
    [][ /\ lastUpdate' # lastUpdate => eout'.op = "done"
        /\ eout'.op \in {"error", "skip"} =>
              /\ lastUpdate' = lastUpdate
              /\ needsUpdate(lastUpdate', now') = needsUpdate(lastUpdate, now) ]_vars

\* the part of it about skipped calls
SkipKeepsLastUpdate ==
    [][ eout'.op = "skip" => lastUpdate' = lastUpdate ]_vars

-----------------------------------------------------------------------------
(* The icons of a refresh whose sources name a channel more than once *)

\* a source naming one channel three times, the last time without an icon
DocTwins == [channel   |-> << [id |-> Rai1Upper, icon |-> <<"a.png">>],
                              [id |-> SkyRaw, icon |-> Undefined],
                              [id |-> Rai1Lower, icon |-> <<"d.png">>],
                              [id |-> Rai1Upper, icon |-> Undefined] >>,
             programme |-> <<PNow>>]

IconDocs == Docs \cup {DocTwins}

InitIcons ==
    /\ now = BootTime
    /\ runner = NewRunner(FALSE, {})
    /\ CacheInit0
    /\ EpgInit

NextIcons ==
    \/ InitializeDatabase
    \/ \E u \in {E2, UrlPair} : StartEPGUpdate(u)
    \/ \E i \in 1..Len(refresh) : ResolveUrls(i, RespError)
    \/ \E i \in 1..Len(refresh), d \in IconDocs \cup {FetchFailed} :
          DownloadSettles(i, d, TRUE, TRUE)

SpecIcons == InitIcons /\ [][NextIcons]_vars

-----------------------------------------------------------------------------
(* Claims about the icons, checked under SpecIcons *)

\* no two rows of channel_icons have the same channel_id, and every channel_id
\* is a non-empty normalized id
OneIconPerId(db) ==
    db # NullObj =>
        /\ \A i, j \in 1..Len(db.icons) :
              db.icons[i].channel_id = db.icons[j].channel_id => i = j
        /\ \A i \in 1..Len(db.icons) :
              /\ db.icons[i].channel_id # <<>>
              /\ epgNormalizeId(db.icons[i].channel_id) = db.icons[i].channel_id

\* the entries of a source that carry an icon for the normalized id
IconEntries(doc, id) ==
    {j \in 1..Len(doc.channel) :
        /\ epgNormalizeId(doc.channel[j].id) = id
        /\ ~Falsy(id)
        /\ ~Falsy(doc.channel[j].icon)}

\* the icon of the last of them, or the icon held before when there is none
LastIcon(doc, id, before) ==
    IF IconEntries(doc, id) = {} THEN before
    ELSE doc.channel[CHOOSE j \in IconEntries(doc, id) :
                        \A k \in IconEntries(doc, id) : k <= j].icon

\* the step ingested a source
Ingested == eout'.op \in {"fetched", "done"} /\ ~eout'.failed

\* C26: channel_icons holds at most one icon per normalized channel id in every
\* state, and after a source is ingested getChannelIcon returns, for every id,
\* the icon of the last entry of that source carrying one for the id, and
\* otherwise what it returned before: the last icon ingested wins.
C26_OneIconLastWins ==
    [][ /\ OneIconPerId(edb')
        /\ Ingested =>
              \E d \in IconDocs :
                  /\ edb'.icons = InsertIcons(edb.icons, d.channel)
                  /\ \A q \in GuideIds \ {Null} :
                        getChannelIcon(edb', q)
                          = LastIcon(d, epgNormalizeId(q), getChannelIcon(edb, q)) ]_vars

C26_Witness ==
    /\ eout.op = "done" /\ ~eout.failed
    /\ edb # NullObj
    /\ getChannelIcon(edb, Rai1Upper) = <<"d.png">>
    /\ getChannelIcon(edb, SkyRaw) = <<"c.png">>
    /\ Len(edb.icons) = 2

-----------------------------------------------------------------------------
(* Claims about queries on empty stores, checked under SpecJobs *)

\* the guide has no database handle yet, or tables without a row
NoGuide(db) == db = NullObj \/ (db.programs = <<>> /\ db.icons = <<>>)

\* C27: while the catalog has no snapshot every catalog query answers absent or
\* empty for every argument and remembered filter, and while the guide has no
\* database or no rows every guide query answers absent or empty for every id.
C27_EmptyStoresAnswerEmpty ==
    /\ ~HasChannels(cache) =>
          /\ \A id \in QueryIds : getChannel(config, cache, id) = NullObj
          /\ \A g \in QueryGenres : getChannelsByGenre(cache, g) = <<>>
          /\ \A q \in QueryTexts : searchChannels(config, cache, q) = <<>>
          /\ \A f \in Filters \cup {NullObj} : getFilteredChannels(config, cache, f) = <<>>
          /\ getCachedData(cache) = [channels |-> <<>>, genres |-> <<>>]
    /\ NoGuide(edb) =>
          \A id \in GuideIds :
              /\ getCurrentProgram(edb, id, now) = {NullObj}
              /\ getUpcomingPrograms(edb, id, now) = {<<>>}
              /\ getChannelIcon(edb, id) = Null

C27_Witness ==
    /\ ~HasChannels(cache) /\ out.op = "fail" /\ cache.m3uUrl = Null
    /\ edb # NullObj /\ NoGuide(edb) /\ isUpdating

-----------------------------------------------------------------------------
(* Claims about the catalog's filters, checked under SpecCache *)

\* C28: with a genre filter remembered getFilteredChannels() equals
\* getChannelsByGenre of its value, with a search filter searchChannels of its
\* value, and with none (never set, or cleared) the full channel list, each on the
\* snapshot current at the time of the call.
C28_FilterReplay ==
    LET filtered == getFilteredChannels(config, cache, lastFilter)
    IN  IF lastFilter = NullObj THEN filtered = getCachedData(cache).channels
        ELSE /\ lastFilter.type = "genre" =>
                    filtered = getChannelsByGenre(cache, lastFilter.value)
             /\ lastFilter.type = "search" =>
                    filtered = searchChannels(config, cache, lastFilter.value)

C28_Witness ==
    /\ lastFilter # NullObj /\ lastFilter.type = "search"
    /\ out.op = "ok" /\ cache.stremioData = DataB
    /\ Len(getFilteredChannels(config, cache, lastFilter)) = 1

\* the channels of the snapshot at the positions in kept, in catalog order
InCatalogOrder(kept, r) ==
    /\ Len(r) = Cardinality(kept)
    /\ \A a \in 1..Len(r) :
          r[a] = cache.stremioData.channels[
                     CHOOSE k \in kept : Cardinality({j \in kept : j <= k}) = a]

\* s contains t as a substring
Contains(s, t) ==
    \E o \in 0..(Len(s) - Len(t)) : \A k \in 1..Len(t) : s[o + k] = t[k]

\* the positions of the channels listing the genre, and of those whose normalized
\* name contains the normalized query
ListingGenre(g) ==
    {i \in 1..Len(cache.stremioData.channels) :
        LET gs == cache.stremioData.channels[i].genre
        IN  gs # Undefined /\ \E k \in 1..Len(gs) : gs[k] = g}

NamedLike(q) ==
    {i \in 1..Len(cache.stremioData.channels) :
        Contains(cacheNormalizeId(config, cache.stremioData.channels[i].name, FALSE),
                 cacheNormalizeId(config, q, FALSE))}

-----------------------------------------------------------------------------
(* Claims about rejected intervals, checked under SpecCache *)

\* update_interval values isStale does not accept: absent, empty, of the wrong
\* shape, hours of 24 and more, minutes of 60 and more
Rejected == {Undefined, <<>>} \cup {iv \in Intervals : ~Accepted(iv)}

\* now - lastUpdated, a missing lastUpdated counting as 0
SinceLastUpdate ==
    now - (IF NoTime(cache.lastUpdated) THEN 0 ELSE cache.lastUpdated)

-----------------------------------------------------------------------------
(* Claims about the phases of a refresh, checked under SpecEPG *)

\* the guide has a database whose two tables hold no row
EmptyTables(db) == db # NullObj /\ db.programs = <<>> /\ db.icons = <<>>

C32_PhasesInOrder ==
    [][ /\ PendingRefresh' => isUpdating'
        /\ eout'.op = "start" =>
              /\ ~PendingRefresh /\ ~isUpdating
              /\ refresh'[1].phase = "resolving"
              /\ edb' = edb
        /\ eout'.op = "clear" =>
              /\ refresh[1].phase = "resolving" /\ refresh'[1].phase = "fetching"
              /\ EmptyTables(edb')
              /\ Len(refresh'[1].urls) >= 1
        /\ eout'.op \in {"fetched", "done"} =>
              /\ isUpdating /\ PendingRefresh
              /\ refresh[1].phase = "fetching"
        /\ eout'.op = "fetched" =>
              /\ isUpdating'
              /\ refresh'[1].phase = "fetching"
              /\ refresh'[1].urls = Tail(refresh[1].urls)
              /\ Len(edb'.programs) >= Len(edb.programs)
              /\ SubSeq(edb'.programs, 1, Len(edb.programs)) = edb.programs
        /\ eout'.op = "done" =>
              /\ Len(refresh[1].urls) = 1
              /\ ~PendingRefresh' /\ ~isUpdating'
              /\ \A k \in 1..Len(edb'.programs) : ~Expired(edb'.programs[k], now) ]_vars

C32_Witness ==
    /\ eout.op = "done" /\ ~eout.failed /\ eout.failures = 0
    /\ lastUpdate = BootTime + 31 * Minute
    /\ ~isUpdating /\ ~PendingRefresh
    /\ edb # NullObj /\ Len(edb.programs) >= 2 /\ Len(edb.icons) = 2
    /\ \E k \in 1..Len(edb.programs) : edb.programs[k].at = BootTime

-----------------------------------------------------------------------------
(* Claims about the retention cleanup, checked under SpecEPG *)

\* the step is a call of cleanupOldPrograms by the six-hourly job, with a database
CleanupCall == eout'.op = "cleanup" /\ edb # NullObj

\* the rows cleanupOldPrograms is to delete
ExpiredRows == {k \in 1..Len(edb.programs) : edb.programs[k].stop_time < now - Hour}

\* C33: cleanupOldPrograms deletes exactly the program rows with
\* stop_time < now - 1h and returns their count; the other rows, the icon table,
\* lastUpdate and isUpdating stay as they were, with or without a refresh in
\* progress.
C33_CleanupDeletesAndCounts ==
    [][ CleanupCall =>
          /\ edb'.programs = SelectSeq(edb.programs, LAMBDA r : ~(r.stop_time < now - Hour))
          /\ eout'.removed = Cardinality(ExpiredRows)
          /\ edb'.icons = edb.icons
          /\ lastUpdate' = lastUpdate
          /\ isUpdating' = isUpdating ]_vars

\* the same without the returned count
CleanupDeletesExpiredOnly ==
    [][ CleanupCall =>
          /\ edb'.programs = SelectSeq(edb.programs, LAMBDA r : ~(r.stop_time < now - Hour))
          /\ edb'.icons = edb.icons
          /\ lastUpdate' = lastUpdate
          /\ isUpdating' = isUpdating ]_vars

-----------------------------------------------------------------------------
(* Claims about the rows of the guide, checked under SpecEPG *)

\* C34: no two rows of the programs table have the same channel id, start time
\* and stop time: a programme ingested twice within one refresh is stored once.
C34_OneRowPerProgram ==
    edb # NullObj =>
        \A i, j \in 1..Len(edb.programs) :
            ( /\ edb.programs[i].channel_id = edb.programs[j].channel_id
              /\ edb.programs[i].start_time = edb.programs[j].start_time
              /\ edb.programs[i].stop_time = edb.programs[j].stop_time ) => i = j

-----------------------------------------------------------------------------
(* Both managers with their pending loads and downloads settling *)

\* the pending step of the refresh settles: readExternalFile, or one download
GuideSettles ==
    \/ \E i \in 1..Len(refresh) : ResolveUrls(i, RespError)
    \/ \E i \in 1..Len(refresh), d \in {DocB, FetchFailed} : DownloadSettles(i, d, TRUE, TRUE)

\* the pending loadAndTransform of the rebuild settles
LoadSettles ==
    \/ \E i \in 1..Len(inflight) : TransformResolves(i, DataA, TRUE)
    \/ \E i \in 1..Len(inflight) : TransformRejects(i)

NextFinish ==
    \/ RebuildCache(U2, <<>>)
    \/ PollTick
    \/ LoadSettles
    \/ InitializeDatabase
    \/ \E u \in {UrlPair, Null} : StartEPGUpdate(u)
    \/ GuideSettles

\* every awaited fetch and transform returns or fails
SpecFinish ==
    /\ InitJobs
    /\ [][NextFinish]_vars
    /\ WF_vars(LoadSettles)
    /\ WF_vars(GuideSettles)

-----------------------------------------------------------------------------
(* Claims about termination, checked under SpecFinish *)

\* C35: a rebuild or a refresh that has started finishes, by success or by an
\* error, and then the in-progress flag of its store is false: no flag stays set
\* for ever.
C35_StartedFinishes ==
    /\ cache.updateInProgress ~> (~cache.updateInProgress /\ Len(inflight) = 0)
    /\ isUpdating ~> (~isUpdating /\ Len(refresh) = 0)

C35_Witness ==
    /\ out.op = "fail" /\ ~cache.updateInProgress /\ Len(inflight) = 0
    /\ eout.op = "done" /\ eout.failed /\ ~isUpdating /\ Len(refresh) = 0

-----------------------------------------------------------------------------
(* Claims about the three normalizers, checked under SpecNormalize *)

\* C36: CacheManager.normalizeId without suffix removal, EPGManager.normalizeId
\* and the normalizeId of the meta handler give the same output for every input.
C36_NormalizersAgree ==
    out.op = "normalizeId" =>
        /\ out.result = out.guide
        /\ out.guide = out.meta

C36_Witness ==
    /\ out.op = "normalizeId"
    /\ out.arg = <<"A", "#", "1">>
    /\ out.result = <<"a", "1">> /\ out.guide = <<"a", "1">> /\ out.meta = <<"a", "1">>

-----------------------------------------------------------------------------
(* Claims about the URL a guide came from, checked under SpecJobs *)

\* the refresh that ends in this step, leaving a guide that is available
EndsWithGuide(i) ==
    /\ refresh' = RemoveAt(refresh, i)
    /\ eout'.op = "done"
    /\ isEPGAvailable(edb', isUpdating')

\* C37: whenever no refresh is in progress and the guide is available, the
\* stored guide was ingested from the URL recorded in lastEpgUrl: a refresh that
\* ends leaving an available guide was started for the URL lastEpgUrl holds, so
\* no later initializeEPG(lastEpgUrl) is skipped over another URL's data.
C37_GuideFromLastEpgUrl ==
    [][ \A i \in 1..Len(refresh) : EndsWithGuide(i) => refresh[i].url = lastEpgUrl' ]_vars

-----------------------------------------------------------------------------
(* The catalog machine driven by its own timer and by updateConfig alone:    *)
(* every rebuild starts for the playlist URL configured at that moment       *)

NextReconfig ==
    \/ \E c \in ConfigInputs : UpdateConfig(c)
    \/ Settles
    \/ PollTick
    \/ TickCache

SpecReconfig == InitCache /\ [][NextReconfig]_vars

\* C38: once every rebuild in flight has settled successfully, the published
\* snapshot's source URL is the configured playlist URL; a rebuild in flight
\* for the old URL when updateConfig changes the URL cannot leave the old
\* playlist published under the new configuration.
C38_PublishedIsConfigured ==
    (out.op = "ok" /\ inflight = <<>>) => cache.m3uUrl = config["m3u"]

-----------------------------------------------------------------------------
(* The catalog machine when no transform succeeds and nobody calls           *)
(* updateConfig: the configuration changes only if rebuildCache changes it   *)

NextUnsuccessful ==
    \/ \E u \in Urls, a \in RebuildArgs : RebuildCache(u, a)
    \/ \E i \in 1..Len(inflight) : TransformRejects(i)
    \/ PollTick
    \/ TickCache

SpecUnsuccessful == InitCache /\ [][NextUnsuccessful]_vars

\* C39: a rebuildCache call that is skipped or whose transform fails leaves the
\* stored configuration as it was: with every rebuild skipped or failed, the
\* configuration is still the one the manager was constructed with.
C39_UnsuccessfulKeepsConfig ==
    (out.op \in {"skip", "fail"} /\ inflight = <<>>)
        => config = Spread(<<>>, [m3u |-> U1])

\* the skipped call by itself leaves the configuration alone
SkippedKeepsConfig == [][out'.op = "skip" => config' = config]_vars

\* after a failed rebuild the poll's isStale decision is the one the constructed
\* configuration gives (it is not: the merged update_interval decides)
StaleDecisionKept ==
    (out.op = "fail" /\ inflight = <<>> /\ HasChannels(cache))
        => (isStale(config, cache, now) <=> isStale(Spread(<<>>, [m3u |-> U1]), cache, now))

-----------------------------------------------------------------------------
(* The runner by itself *)

InitRunner ==
    /\ now = BootTime
    /\ CacheInit0
    /\ EpgInit0
    /\ \E script \in BOOLEAN, files \in SUBSET PlaylistFiles :
          runner = NewRunner(script, files)

NextRunner ==
    \/ \E ok \in BOOLEAN : DownloadScript(ok)
    \/ \E unlinkOk \in BOOLEAN : ExecuteScript(unlinkOk)
    \/ \E i \in 1..Len(runner.runs), ok \in BOOLEAN : VersionSettles(i, ok)
    \/ \E i \in 1..Len(runner.runs), f \in PlaylistFiles : ScriptWrites(i, f)
    \/ \E i \in 1..Len(runner.runs), threw, named, copyOk \in BOOLEAN, f \in PlaylistFiles :
          ScriptSettles(i, threw, f, named, copyOk)

SpecRunner == InitRunner /\ [][NextRunner]_vars

\* the step is an executeScript call
IsCall == runner'.step.op \in {"busy", "noscript", "start"}

\* the step is the end of an execution: true returned, no playlist found, or
\* the catch block
IsFinish == runner'.step.op \in {"true", "nofile", "threw"}

\* C40: executeScript is single-flight: a call made while an execution is
\* running returns false, spawns nothing and deletes no playlist file, and
\* isRunning is false after every execution finishes, whether it returns true,
\* finds no playlist or throws.
C40_SingleFlight ==
    [][ /\ (runner.isRunning /\ IsCall)
            => /\ runner'.step = RunnerStep("busy", FALSE, 0, 0)
               /\ runner'.files = runner.files
               /\ runner'.runs = runner.runs
               /\ runner'.isRunning
        /\ IsFinish => (~runner'.isRunning /\ runner'.runs = <<>>) ]_vars

\* a call turned away while the script of another is running, with a playlist
\* file in the directory
C40_Witness ==
    /\ runner.step.op = "busy"
    /\ runner.isRunning
    /\ runner.runs = <<"script">>
    /\ runner.files # {}

\* the flag tells whether an execution is running, and there is one at most
FlagIffRunning ==
    /\ runner.isRunning <=> runner.runs # <<>>
    /\ Len(runner.runs) <= 1
====
